---- MODULE Spec2Model ----
(***************************************************************************)
(* Event ingestion and processing pipeline of bp-telemetry-core:          *)
(*   - the Fast-Path Consumer (processing/fast_path/consumer.py) with its  *)
(*     BatchManager, reading the primary Redis stream, writing to durable  *)
(*     storage, publishing CDC pointers and acknowledging;                 *)
(*   - the Slow-Path Worker (processing/slow_path/worker_base.py) reading  *)
(*     the CDC stream, filtering by priority, processing, acknowledging    *)
(*     and dead-lettering.                                                 *)
(* Each subsystem has its own specification; the variables of the other    *)
(* subsystem stay at their initial value.                                  *)
(***************************************************************************)
EXTENDS Integers, Sequences, FiniteSets, TLC

(***************************************************************************)
(* Bounds of the model.                                                    *)
(***************************************************************************)
MaxMsgs == 2        \* messages a producer appends to the primary stream
BatchSize == 2      \* batch_size the consumer is configured with
MaxCrashes == 1     \* crashes of the consumer process
MaxCdc == 2         \* entries published to the CDC stream
WindowSize == 3     \* latency_window_size and acceptance_window_size of the model
MaxOps == 4         \* calls made on the shared metrics state
MaxCalcEvents == 3  \* events handed to the metrics calculators
SessionLength == 60 \* seconds between a session's start and its end
MaxWorkers == 2     \* largest worker count a pool is configured with
MaxCalls == 4       \* start and stop calls made on a worker pool
MaxAdds == 3        \* events added to a batch manager
MaxGets == 3        \* get_batch calls made on a batch manager
MaxTime == 4        \* ticks of the clock a batch manager reads
BatchTimeout == 2   \* batch_timeout of the batch manager, in ticks
MaxDlq == 3         \* entries added to the dead-letter stream by the two handlers
MaxErrors == 1      \* broker reads that raise, for the consumer and for each worker
MaxPublishErrors == 1 \* publish calls of the consumer that raise
MaxDeadLetters == 2 \* entries the consumer adds to "telemetry:dlq"
MaxEntries == 2     \* entries of the stream the session monitor reads
MaxStarts == 2      \* start() calls made on the session monitor
MaxTicks == 1       \* seconds the clock advances while the calculators are fed

VARIABLES
  \* ---- broker: primary stream "telemetry:events", group "processors"
  stream,         \* sequence of entries; the message id is the position
  lastDelivered,  \* last id the group delivered with ">"
  pel,            \* ids delivered and not acknowledged
  idle,           \* ids of pel idle for at least the 5 minutes of min_idle_time
  waiting,        \* the other ids of pel, grouped by delivery, oldest delivery first
  acked,          \* ids passed to XACK
  fdlq,           \* entries the consumer added to "telemetry:dlq"
  \* ---- CDC stream and durable storage
  cdc,            \* sequence of pointers [sequence, event]
  rows,           \* raw_traces: sequence of events, the sequence number is the position
  \* ---- FastPathConsumer and its BatchManager
  pc,             \* position of run()
  running,        \* self.running
  batch,          \* BatchManager._events
  timerExpired,   \* time.time() - _first_event_time >= batch_timeout
  messages,       \* local "messages" of run()
  message_map,    \* local "message_map" of run(), in insertion order
  idx,            \* position of the "for msg in messages" loop
  toAck,          \* processed_ids returned by _process_batch
  crashes,        \* crashes so far
  \* ---- history, read by the properties only
  batchOrigin,    \* message id of each event of batch
  rowOrigin,      \* message id each row was written for
  lastSequence,   \* the last sequence number a write_batch call returned, 0 before any
  publishErrors,  \* publish calls of the consumer that raised
  flush,          \* the flush the last consumer step performed
  writtenUnacked, \* ids whose write committed when the consumer crashed before XACK
  \* ---- broker: CDC stream "cdc:events", group "workers", and "telemetry:dlq"
  cstream,        \* sequence of CDC entries; the message id is the position
  wLast,          \* last id the group delivered with ">"
  wpending,       \* ids in the group's pending-entries list
  times,          \* times_delivered of each entry, as the broker counts it
  deliveredTo,    \* consumer each CDC entry was delivered to (PEL owner), "nobody" before
  wacked,         \* ids passed to XACK
  wdlq,           \* entries the workers added to "telemetry:dlq"
  \* ---- the workers (WorkerBase), one consumer name each
  wpc,            \* position of each worker
  cur,            \* the message each worker is processing
  outcome,        \* how process_event ended for it
  stats,          \* self.stats of each worker
  \* ---- history, read by the properties only
  invoked,        \* ids process_event was called for
  recorded,       \* ids whose metrics process_event recorded
  \* ---- SharedMetricsState: the keys "metrics:state:*" of the shared store
  latency_window,     \* sorted set: members in score order, oldest first
  acceptance_window,  \* sorted set: members in score order, oldest first
  tool_counts,        \* hash tool -> calls
  tool_success,       \* hash tool -> successes
  tool_failures,      \* hash tool -> failures
  session_starts,     \* hash session -> start timestamp
  session_tools,      \* hash session -> tool uses
  session_prompts,    \* hash session -> prompts
  \* ---- history, read by the properties only
  latencyCalls,       \* duration_ms of every add_latency call since the store was empty
  acceptanceCalls,    \* accepted of every add_acceptance call since the store was empty
  \* ---- MetricsCalculator: one instance per metrics worker
  calc,               \* the attributes of each calculator
  emitted,            \* the list the last calculate_metrics_for_event call returned
  \* ---- history, read by the properties only
  calcLog,            \* the calls so far: which calculator, which event
  \* ---- the worker pool manager
  worker_config,      \* worker_config['metrics']: enabled, count
  poolRunning,        \* WorkerPoolManager.running
  poolWorkers,        \* WorkerPoolManager.workers
  worker_tasks,       \* WorkerPoolManager.worker_tasks: handles of tasks
  loopTasks,          \* every task created on the event loop, with its state
  readyQ,             \* the ready queue of the event loop, next entry first
  stopAt,             \* caller -> the task its stop() awaits and its place in the list
  poolCalls,          \* the start and stop calls so far, with their outcome
  \* ---- a batch manager and the threads calling it
  bm_events,          \* BatchManager._events
  first_event_time,   \* BatchManager._first_event_time
  lock,               \* BatchManager._lock: the thread holding it
  clock,              \* time.time()
  bmPc,               \* per thread: the call it is inside
  bmLocal,            \* per thread: the local variable batch of get_batch
  bmResult,           \* the latest return value
  appended,           \* number of events appended so far
  appendTimes,        \* clock at the append of each event of the current batch
  returned,           \* the lists get_batch returned, in order
  drainTime,          \* clock at the latest return of get_batch
  cleared,            \* the events clear() dropped
  \* ---- the dead-letter stream under the two handlers that write it
  dlq,                \* entries of "telemetry:dlq"
  \* ---- one MetricsWorker handling CDC messages against the raw_traces table
  raw_traces,         \* the table: row k has sequence k
  calculator,         \* the state of the worker's MetricsCalculator
  metrics_storage,    \* the record_metric calls made so far
  mwAcked,            \* ids acknowledged on "cdc:events"
  mwStats,            \* the worker's stats['processed'] and stats['failed']
  mwDlq,              \* entries the worker added to "telemetry:dlq"
  handled,            \* the messages handled so far, with what became of each
  mwTask,             \* the message _process_message is handling, and where it is
  \* ---- two consumers of the group "processors" on one stream
  grpStream,          \* number of entries of the stream
  grpLast,            \* last id the group delivered with ">"
  grpOwner,           \* id -> consumer name of its pending entry
  grpPel,             \* ids pending in the group
  grpIdle,            \* pending ids idle for min_idle_time or longer
  grpWaiting,         \* the other pending ids, grouped by delivery, oldest first
  grpAcked,           \* ids acknowledged
  grpRows,            \* ids of the messages written, in write order
  grpHeld,            \* consumer -> ids of the events in its batch manager
  grpMap,             \* consumer -> ids of message_map while run() adds the read
  grpPc,              \* consumer -> the call it is about to make and the ids it is made for
  alive,              \* the consumers whose process runs
  \* ---- add_latency calls of several workers on the shared sorted set
  cwWindow,           \* the sorted set, as entries in ascending score order
  cwPc,               \* caller -> the command its call sends next
  cwArg,              \* caller -> duration_ms of its call
  cwScore,            \* caller -> the timestamp its call took
  cwCount,            \* caller -> the count its ZCARD returned
  cwClock,            \* the clock time.time() reads
  cwCalls,            \* durations of the calls, in timestamp order
  \* ---- errors of the broker reads of the two loops
  readErrors,         \* read errors _read_messages has logged
  errors,             \* worker -> number of entries of stats['errors']
  \* ---- SessionMonitor on "telemetry:events"
  smStream,           \* the entries of the stream; the id is the position
  active_sessions,    \* self.active_sessions, as (workspace_hash, session_id) items
  last_redis_id,      \* self.last_redis_id
  smStarts,           \* start() calls made so far
  smProcessed         \* ids passed to _process_redis_message, in call order

fpVars == <<stream, lastDelivered, pel, idle, waiting, acked, fdlq, cdc, rows,
            pc, running, batch, timerExpired, messages, message_map, idx, toAck,
            crashes, batchOrigin, rowOrigin, lastSequence, publishErrors, flush,
            writtenUnacked>>

spVars == <<cstream, wLast, wpending, times, wacked, wdlq, deliveredTo, wpc, cur,
            outcome, stats, invoked, recorded>>

msVars == <<latency_window, acceptance_window, tool_counts, tool_success, tool_failures,
            session_starts, session_tools, session_prompts, latencyCalls,
            acceptanceCalls>>

calcVars == <<calc, emitted, calcLog>>
poolVars == <<worker_config, poolRunning, poolWorkers, worker_tasks, loopTasks, readyQ, stopAt,
              poolCalls>>
bmVars == <<bm_events, first_event_time, lock, clock, bmPc, bmLocal, bmResult, appended,
            appendTimes, returned, drainTime, cleared>>
dlqVars == <<dlq>>
mwVars == <<raw_traces, calculator, metrics_storage, mwAcked, mwStats, mwDlq, handled, mwTask>>
grpVars == <<grpStream, grpLast, grpOwner, grpPel, grpIdle, grpWaiting, grpAcked, grpRows,
             grpHeld, grpMap, grpPc, alive>>
cwVars == <<cwWindow, cwPc, cwArg, cwScore, cwCount, cwClock, cwCalls>>
loopVars == <<readErrors, errors>>
smVars == <<smStream, active_sessions, last_redis_id, smStarts, smProcessed>>

vars == <<fpVars, spVars, msVars, calcVars, poolVars, bmVars, dlqVars, mwVars, grpVars, cwVars, loopVars, smVars>>

\* What the steps of one subsystem leave alone.
notFpVars == <<spVars, msVars, calcVars, poolVars, bmVars, dlqVars, mwVars, grpVars, cwVars, loopVars, smVars>>
notSpVars == <<fpVars, msVars, calcVars, poolVars, bmVars, dlqVars, mwVars, grpVars, cwVars, loopVars, smVars>>
notMsVars == <<fpVars, spVars, calcVars, poolVars, bmVars, dlqVars, mwVars, grpVars, cwVars, loopVars, smVars>>
notCalcVars == <<fpVars, spVars, msVars, poolVars, bmVars, dlqVars, mwVars, grpVars, cwVars, loopVars, smVars>>
notPoolVars == <<fpVars, spVars, msVars, calcVars, bmVars, dlqVars, mwVars, grpVars, cwVars, loopVars, smVars>>
notBmVars == <<fpVars, spVars, msVars, calcVars, poolVars, dlqVars, mwVars, grpVars, cwVars, loopVars, smVars>>
notDlqVars == <<fpVars, spVars, msVars, calcVars, poolVars, bmVars, mwVars, grpVars, cwVars, loopVars, smVars>>
notMwVars == <<fpVars, spVars, msVars, calcVars, poolVars, bmVars, dlqVars, grpVars, cwVars, loopVars, smVars>>
notGrpVars == <<fpVars, spVars, msVars, calcVars, poolVars, bmVars, dlqVars, mwVars, cwVars, loopVars, smVars>>
notCwVars == <<fpVars, spVars, msVars, calcVars, poolVars, bmVars, dlqVars, mwVars, grpVars, loopVars, smVars>>
notLoopVars == <<fpVars, spVars, msVars, calcVars, poolVars, bmVars, dlqVars, mwVars, grpVars, cwVars, smVars>>
notSmVars == <<fpVars, spVars, msVars, calcVars, poolVars, bmVars, dlqVars, mwVars, grpVars, cwVars, loopVars>>

(***************************************************************************)
(* Values.  A dict is the set of its <<key, value>> pairs.                 *)
(***************************************************************************)
\* Two event_id values: two messages carry the same event or different ones.
EventIds == {"a", "b"}

EmptyDict == {}

\* None, where a str is expected.
PyNone == "None"

Fields(e) == {<<"event_id", e>>}

\* The text of a "payload", "metadata" or "data" field: a JSON text is written as
\* the value it encodes, and NotJson is a text json.loads rejects.
Json(d) == <<"json", d>>
NotJson == <<"text", "not json">>
\* The JSON text "null", which json.loads accepts and turns into None.
JsonNull == <<"null", PyNone>>
JsonLoads(v) == v[2]

HasKey(d, key) == \E f \in d : f[1] = key

\* dict.get(key, default)
Get(d, key, default) ==
  IF HasKey(d, key) THEN (CHOOSE f \in d : f[1] = key)[2] ELSE default

\* A stream entry: its flat fields, and whether every key and value is valid UTF-8.
\* Producers write flat fields: "a" with a JSON payload and an external_session_id,
\* "b" with the event as JSON in a "data" field and a metadata text that is no JSON,
\* "a" with a "data" field that is no JSON, and "b" with a "data" field that is
\* the JSON null and, in another field, bytes that are no UTF-8.
Entries ==
  { [fields |-> Fields("a") \cup {<<"payload", Json({<<"k", "v">>})>>,
                                  <<"external_session_id", "x">>},
     utf8 |-> TRUE],
    [fields |-> Fields("b") \cup {<<"data", Json(Fields("b"))>>, <<"metadata", NotJson>>},
     utf8 |-> TRUE],
    [fields |-> Fields("a") \cup {<<"data", NotJson>>}, utf8 |-> TRUE],
    [fields |-> Fields("b") \cup {<<"data", JsonNull>>}, utf8 |-> FALSE] }

NoFlush == [kind |-> "none", drained |-> <<>>, written |-> <<>>, ids |-> <<>>,
            origin |-> <<>>, sequences |-> <<>>, published |-> <<>>, raised |-> FALSE,
            publishRaised |-> FALSE]

Range(s) == {s[i] : i \in DOMAIN s}

RECURSIVE SetToSeq(_)
\* The ids of a set in increasing order (the broker lists entries by id).
SetToSeq(S) ==
  IF S = {} THEN <<>>
  ELSE LET m == CHOOSE x \in S : \A y \in S : x <= y
       IN <<m>> \o SetToSeq(S \ {m})

(***************************************************************************)
(* Pure parts of the Fast-Path Consumer.                                   *)
(***************************************************************************)
\* "try: event[key_str] = json.loads(val_str) except json.JSONDecodeError: {}":
\* the value of a text json.loads accepts, None for the text null included, and
\* {} for a text it rejects.
ParseJsonField(v) == IF v[1] \in {"json", "null"} THEN JsonLoads(v) ELSE EmptyDict

\* _read_messages, the per-message try block: the event rebuilt from the flat
\* fields (payload and metadata parsed, event_id defaulting to the message id and
\* session_id to external_session_id or ""), or event None when a key or value
\* does not decode.
ParseMessage(id, entry) ==
  IF entry.utf8
    THEN LET copied == {IF f[1] \in {"payload", "metadata"}
                          THEN <<f[1], ParseJsonField(f[2])>> ELSE f : f \in entry.fields}
             withId == copied \cup (IF HasKey(copied, "event_id")
                                      THEN {} ELSE {<<"event_id", id>>})
         IN [id |-> id,
             event |-> withId
                         \cup (IF HasKey(withId, "session_id")
                                 THEN {}
                                 ELSE {<<"session_id",
                                         Get(withId, "external_session_id", "")>>}),
             isNone |-> FALSE]
    ELSE [id |-> id, event |-> EmptyDict, isNone |-> TRUE]

\* _process_pending_messages: event_data = fields.get(b'data', b'{}')
ClaimedData(entry) == Get(entry.fields, "data", Json(EmptyDict))

\* json.loads(event_data.decode('utf-8')) raises: the except branch logs the
\* error and the claimed message is left out of the batch.
ClaimedRaises(entry) == ClaimedData(entry)[1] \notin {"json", "null"}

\* json.loads(event_data.decode('utf-8')) of a JSON object
ClaimedEvent(entry) == JsonLoads(ClaimedData(entry))

\* messages.append({'id': msg_id, 'event': event}); the event is None when the
\* 'data' field is the JSON null.
ClaimedMessage(id, entry) ==
  IF ClaimedData(entry) = JsonNull
    THEN [id |-> id, event |-> EmptyDict, isNone |-> TRUE]
    ELSE [id |-> id, event |-> ClaimedEvent(entry), isNone |-> FALSE]

\* "for msg_id, fields in claimed": the messages built for the claimed entries
\* whose 'data' field json.loads accepts.
ClaimedMessages(claimed, entries) ==
  LET parsed == SelectSeq(claimed, LAMBDA id : ~ClaimedRaises(entries[id]))
  IN [k \in 1..Len(parsed) |-> ClaimedMessage(parsed[k], entries[parsed[k]])]

\* "if msg['event']": None and the empty dict are both false.
Truthy(msg) == ~msg.isNone /\ msg.event # EmptyDict

\* message_map = {msg['id']: msg['event'] for msg in messages if msg['event']}
MessageMap(msgs) == SelectSeq(msgs, Truthy)

HasMatch(ev, map) == \E k \in DOMAIN map : map[k].event = ev

\* "for msg_id, event_data in message_map.items(): if event_data == event: ... break"
FirstMatch(ev, map) ==
  map[CHOOSE k \in DOMAIN map :
        /\ map[k].event = ev
        /\ \A j \in DOMAIN map : map[j].event = ev => k <= j].id

\* The positions of the batch for which run() rebuilds a message.
Rebuilt(b, map) == SelectSeq([i \in 1..Len(b) |-> i], LAMBDA i : HasMatch(b[i], map))

\* batch_messages of run()
BatchMessages(b, map) ==
  LET kept == Rebuilt(b, map)
  IN [k \in 1..Len(kept) |->
        [id |-> FirstMatch(b[kept[k]], map), event |-> b[kept[k]], isNone |-> FALSE]]

\* message_map.pop(msg_id, None) for each processed id
PopAll(map, ids) == SelectSeq(map, LAMBDA e : e.id \notin Range(ids))

\* BatchManager.add_event: True when the batch is full after the insert.
\* A batch that counts as full only once it is over batch_size.
Ready_Exceeds(b) == Len(b) > BatchSize

Ready(b) == Len(b) >= BatchSize

\* A should_flush that waits for a full batch.
ShouldFlush_OnlyFull(b, expired) == Len(b) >= BatchSize /\ expired

\* BatchManager.should_flush
ShouldFlush(b, expired) == Len(b) # 0 /\ expired

\* Sequence numbers that give every event of a batch the same number.
Sequences_Reused(rs, events) == [i \in 1..Len(events) |-> Len(rs) + 1]

\* write_batch: one sequence number per event, in order, after the high-water mark.
Sequences(rs, events) == [i \in 1..Len(events) |-> Len(rs) + i]

\* A write_batch whose failed transaction leaves the first event of the batch
\* committed.
WriteBatch_PartialCommit(rs, events, commits) ==
  IF commits
    THEN [rows |-> rs \o events, sequences |-> Sequences(rs, events), raised |-> FALSE]
    ELSE [rows |-> Append(rs, events[1]), sequences |-> <<>>, raised |-> TRUE]

\* write_batch(events): one storage transaction.  It commits every event and
\* returns their sequence numbers, or it raises, commits nothing and assigns no
\* sequence number.
WriteBatch(rs, events, commits) ==
  IF commits
    THEN [rows |-> rs \o events, sequences |-> Sequences(rs, events), raised |-> FALSE]
    ELSE [rows |-> rs, sequences |-> <<>>, raised |-> TRUE]

\* CDCPublisher.publish(sequence, event) for each written event.
Pointers(seqs, events) ==
  [i \in 1..Len(events) |-> [sequence |-> seqs[i], event |-> events[i]]]

\* "for sequence, event in zip(sequences, events): publish(sequence, event)":
\* the pointers published when the publish call after the first n raises; all of
\* them when there are no more than n.
Published(pointers, n) ==
  SubSeq(pointers, 1, IF n < Len(pointers) THEN n ELSE Len(pointers))

\* max_retries of the consumer
max_retries == 3

\* _handle_failed_message(msg['id'], None, retry_count=max_retries)
DlqEntry(msg) == [message_id |-> msg.id, retry_count |-> max_retries, event |-> "null"]

\* maxlen of the XADD to "telemetry:dlq"
maxlen == 1000

\* xadd("telemetry:dlq", ..., maxlen=1000, approximate=True) for each entry: the
\* streams the broker may leave.  Nothing is trimmed while the stream holds no
\* more than maxlen entries; above that the broker removes oldest entries by
\* whole nodes, as many as its node boundaries allow, and never goes below
\* maxlen.
DlqAdd(q, entries) ==
  LET all == q \o entries
  IN {SubSeq(all, k, Len(all)) :
        k \in 1..(IF Len(all) > maxlen THEN Len(all) - maxlen + 1 ELSE 1)}

\* A _process_batch that publishes the pointers before the write has committed.
ProcessBatch_PublishesUncommitted(msgs, rs, out) ==
  LET valid  == SelectSeq(msgs, LAMBDA m : ~m.isNone)
      bad    == SelectSeq(msgs, LAMBDA m : m.isNone)
      events == [i \in 1..Len(valid) |-> valid[i].event]
      called == Len(events) > 0
      w      == WriteBatch(rs, events, out.commits)
      ok     == called /\ ~w.raised
      sent   == Published(Pointers(Sequences(rs, events), events), out.published)
      failed == ok /\ Len(sent) < Len(events)
  IN [events        |-> events,
      dead          |-> [i \in 1..Len(bad) |-> DlqEntry(bad[i])],
      rows          |-> IF called THEN w.rows ELSE rs,
      sequences     |-> IF called THEN w.sequences ELSE <<>>,
      pointers      |-> sent,
      ids           |-> IF ok /\ ~failed
                          THEN [i \in 1..Len(valid) |-> valid[i].id] ELSE <<>>,
      origin        |-> [i \in 1..Len(valid) |-> valid[i].id],
      committed     |-> ok,
      raised        |-> called /\ w.raised,
      publishRaised |-> failed]

\* _process_batch: what it dead-letters, writes, publishes and returns.  The
\* events that are not None go to one write_batch call; the pointers are
\* published after it returned; an exception of either leaves the try block and
\* [] is returned.
ProcessBatch(msgs, rs, out) ==
  LET valid  == SelectSeq(msgs, LAMBDA m : ~m.isNone)
      bad    == SelectSeq(msgs, LAMBDA m : m.isNone)
      events == [i \in 1..Len(valid) |-> valid[i].event]
      called == Len(events) > 0
      w      == WriteBatch(rs, events, out.commits)
      ok     == called /\ ~w.raised
      sent   == IF ok THEN Published(Pointers(w.sequences, events), out.published)
                ELSE <<>>
      failed == ok /\ Len(sent) < Len(events)
  IN [events        |-> events,
      dead          |-> [i \in 1..Len(bad) |-> DlqEntry(bad[i])],
      rows          |-> IF called THEN w.rows ELSE rs,
      sequences     |-> IF called THEN w.sequences ELSE <<>>,
      pointers      |-> sent,
      ids           |-> IF ok /\ ~failed
                          THEN [i \in 1..Len(valid) |-> valid[i].id] ELSE <<>>,
      origin        |-> [i \in 1..Len(valid) |-> valid[i].id],
      committed     |-> ok,
      raised        |-> called /\ w.raised,
      publishRaised |-> failed]

\* The last sequence number returned so far, after a write_batch call that
\* returned seqs.
LastOf(seqs, last) == IF seqs = <<>> THEN last ELSE seqs[Len(seqs)]

(***************************************************************************)
(* Initial state of the fast path.                                         *)
(***************************************************************************)
FpInit ==
  /\ stream = <<>> /\ lastDelivered = 0 /\ pel = {} /\ idle = {} /\ acked = {}
  /\ waiting = <<>>
  /\ fdlq = <<>> /\ cdc = <<>> /\ rows = <<>>
  /\ pc = "created" /\ running = FALSE
  /\ batch = <<>> /\ timerExpired = FALSE
  /\ messages = <<>> /\ message_map = <<>> /\ idx = 1 /\ toAck = <<>>
  /\ crashes = 0
  /\ batchOrigin = <<>> /\ rowOrigin = <<>> /\ flush = NoFlush /\ writtenUnacked = {}
  /\ lastSequence = 0 /\ publishErrors = 0

brokerVars  == <<stream, lastDelivered, pel, idle, waiting, acked, fdlq>>
brokerVars_noDlq == <<stream, lastDelivered, pel, idle, waiting, acked>>
storeVars   == <<cdc, rows, rowOrigin, lastSequence, publishErrors>>
localVars   == <<messages, message_map, idx, toAck>>
batchVars   == <<batch, batchOrigin, timerExpired>>

(***************************************************************************)
(* Environment.                                                            *)
(***************************************************************************)
\* A producer appends an entry to the primary stream.
Enqueue ==
  /\ Len(stream) < MaxMsgs
  /\ \E entry \in Entries : stream' = Append(stream, entry)
  /\ UNCHANGED <<lastDelivered, pel, idle, waiting, acked, fdlq, storeVars, pc,
                 running, batchVars, localVars, crashes, flush, writtenUnacked>>
  /\ UNCHANGED notFpVars

\* batch_timeout elapses since the first event of the batch.
TimerExpire ==
  /\ batch # <<>> /\ ~timerExpired
  /\ timerExpired' = TRUE
  /\ UNCHANGED <<brokerVars, storeVars, pc, running, batch, batchOrigin,
                 localVars, crashes, flush, writtenUnacked>>
  /\ UNCHANGED notFpVars

\* The pending entries among ids that a reclaim dead-letters: their 'data'
\* field is the JSON null, the event is None.
DeadLettered(ids) == {m \in ids : ClaimedData(stream[m]) = JsonNull}

\* The delivery groups without the given ids; a group left empty is dropped.
RECURSIVE Without(_, _)
Without(groups, ids) ==
  IF groups = <<>>
    THEN <<>>
    ELSE (IF Head(groups) \subseteq ids THEN <<>> ELSE <<Head(groups) \ ids>>)
           \o Without(Tail(groups), ids)

\* The broker's clock reaches min_idle_time (5 minutes) after the oldest delivery
\* among the entries not yet idle: the entries of that delivery are idle, whether
\* or not the consumer still holds their events.  Entries delivered later are not.
\* Time is followed until the claims it opens would bring the dead-letter stream
\* above MaxDeadLetters entries.
IdleExpire ==
  /\ waiting # <<>>
  /\ Len(fdlq) + Cardinality(DeadLettered((idle \cup Head(waiting)) \cap pel))
        <= MaxDeadLetters
  /\ idle' = idle \cup Head(waiting)
  /\ waiting' = Tail(waiting)
  /\ UNCHANGED <<stream, lastDelivered, pel, acked, fdlq, storeVars, pc,
                 running, batchVars, localVars, crashes, flush, writtenUnacked>>
  /\ UNCHANGED notFpVars

(***************************************************************************)
(* run(): Run, then one iteration is ProcessPending [AckPending]           *)
(* ReadMessages {AddEvent [AckBatch]} TimeoutFlush.                        *)
(***************************************************************************)
\* The entry of run(): "self.running = True", then _ensure_consumer_group.  A
\* stop() made before it is overwritten.
Run ==
  /\ pc = "created"
  /\ running' = TRUE
  /\ pc' = "pending"
  /\ UNCHANGED <<brokerVars, storeVars, batchVars, localVars, crashes,
                 flush, writtenUnacked>>
  /\ UNCHANGED notFpVars

\* xpending_range then xclaim with min_idle_time: the pending entries of the
\* consumer that have been idle that long, by id.
Claimed(pending, idleLong) == SetToSeq(pending \cap idleLong)

\* _process_pending_messages up to the return of _process_batch.
ProcessPending(out) ==
  /\ pc = "pending" /\ running
  /\ \E claimed \in {Claimed(pel, idle)} :
     \E msgs \in {ClaimedMessages(claimed, stream)} :
     \E r \in {ProcessBatch(msgs, rows, out)} :
        /\ r.publishRaised => publishErrors < MaxPublishErrors
        \* "if not pending: return" and "if claimed:" leave everything as it is
        \* XCLAIM sets the delivery time of the entries it hands over to now
        /\ idle' = idle \ Range(claimed)
        /\ waiting' = IF claimed = <<>> THEN waiting ELSE Append(waiting, Range(claimed))
        /\ rows' = r.rows
        /\ rowOrigin' = IF r.committed THEN rowOrigin \o r.origin ELSE rowOrigin
        /\ lastSequence' = LastOf(r.sequences, lastSequence)
        /\ cdc' = cdc \o r.pointers
        /\ publishErrors' = IF r.publishRaised THEN publishErrors + 1 ELSE publishErrors
        /\ fdlq' \in DlqAdd(fdlq, r.dead)
        /\ toAck' = r.ids
        \* "if messages:" _process_batch is called with the messages that parsed
        /\ flush' = IF msgs = <<>>
                      THEN NoFlush
                      ELSE [kind |-> "pending", drained |-> r.events,
                            written |-> r.events,
                            ids |-> [k \in 1..Len(msgs) |-> msgs[k].id],
                            origin |-> r.origin, sequences |-> r.sequences,
                            published |-> r.pointers, raised |-> r.raised,
                            publishRaised |-> r.publishRaised]
        /\ pc' = IF msgs = <<>> THEN "read" ELSE "pending_ack"
  /\ UNCHANGED <<stream, lastDelivered, pel, acked, running, batchVars,
                 messages, message_map, idx, crashes, writtenUnacked>>
  /\ UNCHANGED notFpVars

\* _ack_messages(processed_ids) of _process_pending_messages
AckPending ==
  /\ pc = "pending_ack"
  /\ acked' = acked \cup Range(toAck)
  /\ pel' = pel \ Range(toAck)
  /\ idle' = idle \ Range(toAck)
  /\ waiting' = Without(waiting, Range(toAck))
  /\ toAck' = <<>>
  /\ flush' = NoFlush
  /\ pc' = "read"
  /\ UNCHANGED <<stream, lastDelivered, fdlq, storeVars, running, batchVars,
                 messages, message_map, idx, crashes, writtenUnacked>>
  /\ UNCHANGED notFpVars

\* _read_messages: XREADGROUP ">" with count = batch_size, then message_map.
ReadMessages ==
  /\ pc = "read"
  /\ LET last == IF Len(stream) < lastDelivered + BatchSize
                   THEN Len(stream) ELSE lastDelivered + BatchSize
         new  == [k \in 1..(last - lastDelivered) |->
                    ParseMessage(lastDelivered + k, stream[lastDelivered + k])]
     IN /\ messages' = new
        /\ message_map' = MessageMap(new)
        /\ pel' = pel \cup (lastDelivered + 1)..last
        /\ waiting' = IF last = lastDelivered
                         THEN waiting
                         ELSE Append(waiting, (lastDelivered + 1)..last)
        /\ lastDelivered' = last
  /\ idx' = 1
  /\ flush' = NoFlush
  /\ pc' = "add"
  /\ UNCHANGED <<stream, idle, acked, fdlq, storeVars, running, batchVars,
                 toAck, crashes, writtenUnacked>>
  /\ UNCHANGED notFpVars

\* One pass of "for msg in messages": add_event and, when ready, get_batch and
\* _process_batch.
AddEvent(out) ==
  /\ pc = "add" /\ idx <= Len(messages)
  /\ \E msg \in {messages[idx]} :
     \E b \in {Append(batch, msg.event)} :
     \E o \in {Append(batchOrigin, msg.id)} :
     \E bm \in {BatchMessages(b, message_map)} :
     \E kept \in {Rebuilt(b, message_map)} :
     \E r \in {ProcessBatch(bm, rows, out)} :
        IF ~Truthy(msg)
          THEN /\ idx' = idx + 1
               /\ flush' = NoFlush
               /\ UNCHANGED <<pc, batchVars, fdlq, storeVars, toAck>>
          ELSE IF ~Ready(b)
            THEN /\ batch' = b /\ batchOrigin' = o
                 /\ timerExpired' = IF batch = <<>> THEN FALSE ELSE timerExpired
                 /\ idx' = idx + 1
                 /\ flush' = NoFlush
                 /\ UNCHANGED <<pc, fdlq, storeVars, toAck>>
            ELSE /\ r.publishRaised => publishErrors < MaxPublishErrors
                 /\ batch' = <<>> /\ batchOrigin' = <<>> /\ timerExpired' = FALSE
                 /\ rows' = r.rows
                 /\ rowOrigin' = IF r.committed
                                   THEN rowOrigin \o [k \in 1..Len(kept) |-> o[kept[k]]]
                                   ELSE rowOrigin
                 /\ lastSequence' = LastOf(r.sequences, lastSequence)
                 /\ cdc' = cdc \o r.pointers
                 /\ publishErrors' = IF r.publishRaised
                                       THEN publishErrors + 1 ELSE publishErrors
                 /\ fdlq' \in DlqAdd(fdlq, r.dead)
                 /\ toAck' = r.ids
                 /\ flush' = [kind |-> "size", drained |-> b, written |-> r.events,
                              ids |-> [k \in 1..Len(bm) |-> bm[k].id], origin |-> o,
                              sequences |-> r.sequences,
                              published |-> r.pointers, raised |-> r.raised,
                              publishRaised |-> r.publishRaised]
                 /\ pc' = "ack"
                 /\ UNCHANGED idx
  /\ UNCHANGED <<brokerVars_noDlq, running, messages, message_map, crashes,
                 writtenUnacked>>
  /\ UNCHANGED notFpVars

\* _ack_messages(processed_ids) after a size-triggered flush, then message_map.pop.
AckBatch ==
  /\ pc = "ack"
  /\ acked' = acked \cup Range(toAck)
  /\ pel' = pel \ Range(toAck)
  /\ idle' = idle \ Range(toAck)
  /\ waiting' = Without(waiting, Range(toAck))
  /\ message_map' = PopAll(message_map, toAck)
  /\ toAck' = <<>>
  /\ idx' = idx + 1
  /\ flush' = NoFlush
  /\ pc' = "add"
  /\ UNCHANGED <<stream, lastDelivered, fdlq, storeVars, running, batchVars,
                 messages, crashes, writtenUnacked>>
  /\ UNCHANGED notFpVars

\* A timeout flush outside the try of the loop: a write or a publish that raises
\* ends run().
TimeoutFlush_Unguarded(out) ==
  /\ pc = "add" /\ idx > Len(messages)
  /\ IF ShouldFlush(batch, timerExpired)
       THEN \E w \in {WriteBatch(rows, batch, out.commits)} :
            \E sent \in {IF w.raised THEN <<>>
                          ELSE Published(Pointers(w.sequences, batch), out.published)} :
            \E failed \in {~w.raised /\ Len(sent) < Len(batch)} :
              /\ failed => publishErrors < MaxPublishErrors
              /\ batch' = <<>> /\ batchOrigin' = <<>> /\ timerExpired' = FALSE
              /\ rows' = w.rows
              /\ rowOrigin' = IF w.raised THEN rowOrigin ELSE rowOrigin \o batchOrigin
              /\ lastSequence' = LastOf(w.sequences, lastSequence)
              /\ cdc' = cdc \o sent
              /\ publishErrors' = IF failed THEN publishErrors + 1 ELSE publishErrors
              /\ flush' = [kind |-> "timeout", drained |-> batch, written |-> batch,
                           ids |-> <<>>, origin |-> batchOrigin,
                           sequences |-> w.sequences, published |-> sent,
                           raised |-> w.raised, publishRaised |-> failed]
              /\ pc' = IF w.raised \/ failed THEN "stopped" ELSE "pending"
       ELSE /\ flush' = NoFlush
            /\ pc' = "pending"
            /\ UNCHANGED <<batchVars, storeVars>>
  /\ UNCHANGED <<brokerVars, running, localVars, crashes, writtenUnacked>>
  /\ UNCHANGED notFpVars

\* The timeout check that ends the iteration: should_flush, get_batch, write_batch,
\* publish.  A write or a publish that raises is caught by the loop's except.
TimeoutFlush(out) ==
  /\ pc = "add" /\ idx > Len(messages)
  /\ IF ShouldFlush(batch, timerExpired)
       THEN \E w \in {WriteBatch(rows, batch, out.commits)} :
            \E sent \in {IF w.raised THEN <<>>
                          ELSE Published(Pointers(w.sequences, batch), out.published)} :
            \E failed \in {~w.raised /\ Len(sent) < Len(batch)} :
              /\ failed => publishErrors < MaxPublishErrors
              /\ batch' = <<>> /\ batchOrigin' = <<>> /\ timerExpired' = FALSE
              /\ rows' = w.rows
              /\ rowOrigin' = IF w.raised THEN rowOrigin ELSE rowOrigin \o batchOrigin
              /\ lastSequence' = LastOf(w.sequences, lastSequence)
              /\ cdc' = cdc \o sent
              /\ publishErrors' = IF failed THEN publishErrors + 1 ELSE publishErrors
              /\ flush' = [kind |-> "timeout", drained |-> batch, written |-> batch,
                           ids |-> <<>>, origin |-> batchOrigin,
                           sequences |-> w.sequences, published |-> sent,
                           raised |-> w.raised, publishRaised |-> failed]
              /\ pc' = "pending"
       ELSE /\ flush' = NoFlush
            /\ pc' = "pending"
            /\ UNCHANGED <<batchVars, storeVars>>
  /\ UNCHANGED <<brokerVars, running, localVars, crashes, writtenUnacked>>
  /\ UNCHANGED notFpVars

\* stop()
Stop ==
  /\ running /\ pc \notin {"stopped", "crashed"}
  /\ running' = FALSE
  /\ UNCHANGED <<brokerVars, storeVars, pc, batchVars, localVars, crashes,
                 flush, writtenUnacked>>
  /\ UNCHANGED notFpVars

\* "while self.running" is false: run() returns.
StopExit ==
  /\ pc = "pending" /\ ~running
  /\ pc' = "stopped"
  /\ flush' = NoFlush
  /\ UNCHANGED <<brokerVars, storeVars, running, batchVars, localVars,
                 crashes, writtenUnacked>>
  /\ UNCHANGED notFpVars

\* The consumer process dies: its memory is lost, the broker and the storage stay.
Crash ==
  /\ pc \notin {"stopped", "crashed"} /\ crashes < MaxCrashes
  /\ crashes' = crashes + 1
  /\ writtenUnacked' = writtenUnacked \cup
                         (IF pc \in {"ack", "pending_ack"} THEN Range(toAck) ELSE {})
  /\ batch' = <<>> /\ batchOrigin' = <<>> /\ timerExpired' = FALSE
  /\ messages' = <<>> /\ message_map' = <<>> /\ idx' = 1 /\ toAck' = <<>>
  /\ flush' = NoFlush
  /\ pc' = "crashed"
  /\ UNCHANGED <<brokerVars, storeVars, running>>
  /\ UNCHANGED notFpVars

\* The consumer is built and run() entered again under the same consumer name.
Restart ==
  /\ pc = "crashed"
  /\ pc' = "pending" /\ running' = TRUE
  /\ UNCHANGED <<brokerVars, storeVars, batchVars, localVars, crashes,
                 flush, writtenUnacked>>
  /\ UNCHANGED notFpVars

\* How the write_batch call and the publish calls of a flush end: whether the
\* storage transaction commits, and how many publish calls return before one
\* raises (none raises when the flush has no more pointers than that).
FlushOutcomes ==
  {[commits |-> FALSE, published |-> 0]} \cup [commits : {TRUE}, published : 0..MaxMsgs]

\* The storage transaction commits or raises, and no publish call raises.
WriteOutcomes == [commits : BOOLEAN, published : {MaxMsgs}]

\* The transaction commits and no publish call raises.
Succeeds == [commits |-> TRUE, published |-> MaxMsgs]

Next ==
  \/ Enqueue
  \/ TimerExpire
  \/ IdleExpire
  \/ Run
  \/ \E out \in FlushOutcomes : ProcessPending(out)
  \/ AckPending
  \/ ReadMessages
  \/ \E out \in FlushOutcomes : AddEvent(out)
  \/ AckBatch
  \/ \E out \in FlushOutcomes : TimeoutFlush(out)
  \/ Stop
  \/ StopExit
  \/ Crash
  \/ Restart

\* The consumer keeps running and the storage is available: no stop(), no crash, and
\* every write_batch commits.
RunningNext ==
  \/ Enqueue
  \/ TimerExpire
  \/ IdleExpire
  \/ Run
  \/ ProcessPending(Succeeds)
  \/ AckPending
  \/ ReadMessages
  \/ AddEvent(Succeeds)
  \/ AckBatch
  \/ TimeoutFlush(Succeeds)

\* The consumer keeps running against a storage whose transactions may fail: no
\* stop(), no crash, and no publish call raises.
WritingNext ==
  \/ Enqueue
  \/ TimerExpire
  \/ IdleExpire
  \/ Run
  \/ \E out \in WriteOutcomes : ProcessPending(out)
  \/ AckPending
  \/ ReadMessages
  \/ \E out \in WriteOutcomes : AddEvent(out)
  \/ AckBatch
  \/ \E out \in WriteOutcomes : TimeoutFlush(out)

\* One step of the loop of run().
RunningStep ==
  \/ Run
  \/ ProcessPending(Succeeds)
  \/ AckPending
  \/ ReadMessages
  \/ AddEvent(Succeeds)
  \/ AckBatch
  \/ TimeoutFlush(Succeeds)

(***************************************************************************)
(* Slow path: WorkerBase and its MetricsWorker specialisation.             *)
(***************************************************************************)
\* w1 is configured like a MetricsWorker; w2 and w3 are workers without a filter.
Workers == {"w1", "w2", "w3"}

\* Values the broker stores are bytes; decoded they are str; the code's literals
\* are int.  Values of different types are never equal.
BytesVal(v) == <<"bytes", v>>
StrVal(v) == <<"str", v>>
IntVal(v) == <<"int", v>>

DefaultPriority == 5
MaxRetries == 3

\* priorities=None (WorkerBase default) and priorities=[1, 2, 3] (MetricsWorker).
AllPriorities == [none |-> TRUE, set |-> {}]
MetricsPriorities == [none |-> FALSE, set |-> {IntVal(1), IntVal(2), IntVal(3)}]

\* The pool on the stream: a MetricsWorker and a worker without a filter.
priorities == [w \in Workers |-> IF w = "w1" THEN MetricsPriorities ELSE AllPriorities]

\* Priority classes the notifier tags pointers with: one the MetricsWorker is
\* configured for and one it is not.
PriorityClasses == {2, 4}

\* A CDC entry: its fields as stored, and whether process_event raises for it.
\* The pointers process_event handles, with a priority class or without one, and
\* a pointer of class 2 it raises for.
CdcEntries ==
  [fields : {{<<"priority", BytesVal(c)>>} : c \in PriorityClasses} \cup {{}},
   poison : {FALSE}]
    \cup {[fields |-> {<<"priority", BytesVal(2)>>}, poison |-> TRUE]}

\* _decode_message: every key and value decoded to str.
DecodeMessage(fields) == {<<f[1], StrVal(f[2][2])>> : f \in fields}


\* A filter that lets every event through.
PassesFilter_Everything(prio, event) == TRUE

\* _process_message: the priority filter lets the event through.
PassesFilter(prio, event) ==
  prio.none \/ Get(event, "priority", IntVal(DefaultPriority)) \in prio.set

\* _get_delivery_count: times_delivered of the entry in the PEL, 1 when not there.
DeliveryCount(id) == IF id \in wpending THEN times[id] ELSE 1

\* A threshold every failed message is over.
MovesToDlq_Always(count) == TRUE

\* _handle_failed_message: the entry is moved to the dead-letter stream.
MovesToDlq(count) == count >= MaxRetries

\* What xpending_range answers for one id: the call raises, the id is not
\* pending, or its entry with times_delivered.
PelLookups ==
  {[raised |-> TRUE, found |-> FALSE, times |-> 0],
   [raised |-> FALSE, found |-> FALSE, times |-> 0]}
    \cup {[raised |-> FALSE, found |-> TRUE, times |-> n] : n \in 1..MaxRetries}

\* _get_delivery_count: times_delivered of the pending entry; 1 when the id is
\* not pending or the lookup raised.
GetDeliveryCount(lookup) ==
  IF lookup.raised \/ ~lookup.found THEN 1 ELSE lookup.times

\* dlq_data of _handle_failed_message
WorkerDlqEntry(id, fields, count) ==
  [fields |-> fields, error |-> "process_event raised", failed_at |-> "time.time()",
   original_message_id |-> id, delivery_count |-> count]

NoStats == [processed |-> 0, failed |-> 0]

SpInit ==
  /\ cstream = <<>> /\ wLast = 0 /\ wpending = {} /\ times = <<>>
  /\ wacked = {} /\ wdlq = <<>>
  /\ deliveredTo = <<>>
  /\ wpc = [w \in Workers |-> "read"]
  /\ cur = [w \in Workers |-> 0]
  /\ outcome = [w \in Workers |-> "none"]
  /\ stats = [w \in Workers |-> NoStats]
  /\ invoked = {} /\ recorded = {}

\* The Change Notifier publishes a pointer.
CdcPublish ==
  /\ Len(cstream) < MaxCdc
  /\ \E entry \in CdcEntries :
        /\ cstream' = Append(cstream, entry)
        /\ times' = Append(times, 0)
        /\ deliveredTo' = Append(deliveredTo, "nobody")
  /\ UNCHANGED <<wLast, wpending, wacked, wdlq, wpc, cur, outcome, stats,
                 invoked, recorded>>
  /\ UNCHANGED notSpVars

\* Another client of the group claims a pending entry for the consumer that
\* holds it (XCLAIM): the broker counts one more delivery, which is what
\* _get_delivery_count reads as times_delivered.  The count matters to
\* _handle_failed_message only: it rises while the process_event that will
\* raise is in flight.
Reclaimed ==
  /\ \E w \in Workers :
        /\ wpc[w] = "process" /\ cstream[cur[w]].poison
        /\ PassesFilter(priorities[w], DecodeMessage(cstream[cur[w]].fields))
        /\ times[cur[w]] < MaxRetries
        /\ times' = [times EXCEPT ![cur[w]] = @ + 1]
  /\ UNCHANGED <<cstream, wLast, wpending, wacked, wdlq, deliveredTo, wpc, cur,
                 outcome, stats, invoked, recorded>>
  /\ UNCHANGED notSpVars

\* A group read that hands out the next entry without advancing the group's
\* last-delivered id.
WRead_Redelivers(w) ==
  /\ wpc[w] = "read" /\ wLast < Len(cstream)
  /\ wLast' = wLast
  /\ wpending' = wpending \cup {wLast + 1}
  /\ times' = [times EXCEPT ![wLast + 1] = 1]
  /\ deliveredTo' = [deliveredTo EXCEPT ![wLast + 1] = w]
  /\ cur' = [cur EXCEPT ![w] = wLast + 1]
  /\ wpc' = [wpc EXCEPT ![w] = "process"]
  /\ UNCHANGED <<cstream, wacked, wdlq, outcome, stats, invoked, recorded>>
  /\ UNCHANGED notSpVars

\* _run: XREADGROUP ">" with count = 1 delivers the next new entry to this worker.
WRead(w) ==
  /\ wpc[w] = "read" /\ wLast < Len(cstream)
  /\ wLast' = wLast + 1
  /\ wpending' = wpending \cup {wLast + 1}
  /\ times' = [times EXCEPT ![wLast + 1] = 1]
  /\ deliveredTo' = [deliveredTo EXCEPT ![wLast + 1] = w]
  /\ cur' = [cur EXCEPT ![w] = wLast + 1]
  /\ wpc' = [wpc EXCEPT ![w] = "process"]
  /\ UNCHANGED <<cstream, wacked, wdlq, outcome, stats, invoked, recorded>>
  /\ UNCHANGED notSpVars

\* _process_message from the read to its next await: decode, priority filter,
\* process_event.  For an event the filter rejects the XACK is handed to a thread
\* and awaited.  When process_event raises, "except Exception" counts
\* stats['failed'] in the same step and the delivery-count lookup is awaited;
\* when it returns, the XACK is handed to a thread and awaited.
WProcess(w) ==
  /\ wpc[w] = "process"
  /\ \E event \in {DecodeMessage(cstream[cur[w]].fields)} :
        IF ~PassesFilter(priorities[w], event)
          THEN /\ outcome' = [outcome EXCEPT ![w] = "skipped"]
               /\ wpc' = [wpc EXCEPT ![w] = "skip_ack"]
               /\ UNCHANGED <<wacked, wpending, cur, invoked, recorded, stats>>
          ELSE /\ invoked' = invoked \cup {cur[w]}
               /\ recorded' = IF cstream[cur[w]].poison
                                THEN recorded ELSE recorded \cup {cur[w]}
               /\ outcome' = [outcome EXCEPT ![w] =
                                IF cstream[cur[w]].poison THEN "raised" ELSE "ok"]
               /\ stats' = IF cstream[cur[w]].poison
                             THEN [stats EXCEPT ![w].failed = @ + 1] ELSE stats
               /\ wpc' = [wpc EXCEPT ![w] = "finish"]
               /\ UNCHANGED <<wacked, wpending, cur>>
  /\ UNCHANGED <<cstream, wLast, times, wdlq, deliveredTo>>
  /\ UNCHANGED notSpVars

\* asyncio.to_thread(xack) of the filter branch: the thread makes the XACK; the
\* coroutine has not been resumed yet.
WSkipAck(w) ==
  /\ wpc[w] = "skip_ack"
  /\ wacked' = wacked \cup {cur[w]}
  /\ wpending' = wpending \ {cur[w]}
  /\ wpc' = [wpc EXCEPT ![w] = "skipped"]
  /\ UNCHANGED <<cstream, wLast, times, wdlq, deliveredTo, cur, outcome, stats,
                 invoked, recorded>>
  /\ UNCHANGED notSpVars

\* The coroutine is resumed after the XACK of the filter branch: "return".
WSkipReturn(w) ==
  /\ wpc[w] = "skipped"
  /\ cur' = [cur EXCEPT ![w] = 0]
  /\ outcome' = [outcome EXCEPT ![w] = "none"]
  /\ wpc' = [wpc EXCEPT ![w] = "read"]
  /\ UNCHANGED <<cstream, wLast, wpending, times, wacked, wdlq, deliveredTo,
                 stats, invoked, recorded>>
  /\ UNCHANGED notSpVars

\* asyncio.to_thread(xack) after process_event returned: the thread makes the
\* XACK; the coroutine has not been resumed yet.
WAck(w) ==
  /\ wpc[w] = "finish" /\ outcome[w] = "ok"
  /\ wacked' = wacked \cup {cur[w]}
  /\ wpending' = wpending \ {cur[w]}
  /\ wpc' = [wpc EXCEPT ![w] = "acked"]
  /\ UNCHANGED <<cstream, wLast, times, wdlq, deliveredTo, cur, outcome, stats,
                 invoked, recorded>>
  /\ UNCHANGED notSpVars

\* The coroutine is resumed after the XACK: stats['processed'] += 1, and
\* _process_message returns.
WCount(w) ==
  /\ wpc[w] = "acked"
  /\ stats' = [stats EXCEPT ![w].processed = @ + 1]
  /\ cur' = [cur EXCEPT ![w] = 0]
  /\ outcome' = [outcome EXCEPT ![w] = "none"]
  /\ wpc' = [wpc EXCEPT ![w] = "read"]
  /\ UNCHANGED <<cstream, wLast, wpending, times, wacked, wdlq, deliveredTo,
                 invoked, recorded>>
  /\ UNCHANGED notSpVars

\* _handle_failed_message: the delivery count comes back from XPENDING; at the
\* threshold the XADD to the dead-letter stream is handed to a thread,
\* otherwise the message is left pending and _process_message returns.
WFinish(w) ==
  /\ wpc[w] = "finish" /\ outcome[w] = "raised"
  /\ IF MovesToDlq(DeliveryCount(cur[w]))
       THEN /\ wpc' = [wpc EXCEPT ![w] = "dlq_add"]
            /\ UNCHANGED <<cur, outcome>>
       ELSE /\ cur' = [cur EXCEPT ![w] = 0]
            /\ outcome' = [outcome EXCEPT ![w] = "none"]
            /\ wpc' = [wpc EXCEPT ![w] = "read"]
  /\ UNCHANGED <<cstream, wLast, wpending, times, wacked, wdlq, deliveredTo,
                 stats, invoked, recorded>>
  /\ UNCHANGED notSpVars

\* asyncio.to_thread(xadd): the thread writes the dead-letter entry; the
\* coroutine has not been resumed yet and the message is still pending.
WDlqAdd(w) ==
  /\ wpc[w] = "dlq_add"
  /\ wdlq' = Append(wdlq, WorkerDlqEntry(cur[w], cstream[cur[w]].fields,
                                         DeliveryCount(cur[w])))
  /\ wpc' = [wpc EXCEPT ![w] = "dlq_added"]
  /\ UNCHANGED <<cstream, wLast, wpending, times, wacked, deliveredTo, cur,
                 outcome, stats, invoked, recorded>>
  /\ UNCHANGED notSpVars

\* The coroutine is resumed after the XADD: the XACK of the dead-lettered
\* message is handed to a thread and awaited.
WDlqResume(w) ==
  /\ wpc[w] = "dlq_added"
  /\ wpc' = [wpc EXCEPT ![w] = "dlq_ack"]
  /\ UNCHANGED <<cstream, wLast, wpending, times, wacked, wdlq, deliveredTo, cur,
                 outcome, stats, invoked, recorded>>
  /\ UNCHANGED notSpVars

\* asyncio.to_thread(xack) of the dead-lettered message: the thread makes the
\* XACK; the coroutine has not been resumed yet.
WDlqAck(w) ==
  /\ wpc[w] = "dlq_ack"
  /\ wacked' = wacked \cup {cur[w]}
  /\ wpending' = wpending \ {cur[w]}
  /\ wpc' = [wpc EXCEPT ![w] = "dlq_acked"]
  /\ UNCHANGED <<cstream, wLast, times, wdlq, deliveredTo, cur, outcome, stats,
                 invoked, recorded>>
  /\ UNCHANGED notSpVars

\* The coroutine is resumed after the XACK of the dead-lettered message:
\* _handle_failed_message and _process_message return.
WDlqReturn(w) ==
  /\ wpc[w] = "dlq_acked"
  /\ cur' = [cur EXCEPT ![w] = 0]
  /\ outcome' = [outcome EXCEPT ![w] = "none"]
  /\ wpc' = [wpc EXCEPT ![w] = "read"]
  /\ UNCHANGED <<cstream, wLast, wpending, times, wacked, wdlq, deliveredTo,
                 stats, invoked, recorded>>
  /\ UNCHANGED notSpVars

WorkerStep(w) ==
  \/ WRead(w) \/ WProcess(w) \/ WSkipAck(w) \/ WSkipReturn(w) \/ WAck(w) \/ WCount(w)
  \/ WFinish(w) \/ WDlqAdd(w) \/ WDlqResume(w) \/ WDlqAck(w) \/ WDlqReturn(w)

\* The positions at which a worker's task is suspended while it handles a
\* message.
Handling == {"process", "skip_ack", "skipped", "finish", "acked", "dlq_add",
             "dlq_added", "dlq_ack", "dlq_acked"}

\* The positions at which the task waits for a thread that has yet to make an
\* XACK.
AwaitsXack(w) ==
  \/ wpc[w] \in {"skip_ack", "dlq_ack"}
  \/ wpc[w] = "finish" /\ outcome[w] = "ok"

\* A cancellation that acknowledges the message the worker holds.
WCancel_Acks(w) ==
  /\ wpc[w] \in Handling
  /\ wacked' = wacked \cup {cur[w]}
  /\ wpending' = wpending \ {cur[w]}
  /\ wpc' = [wpc EXCEPT ![w] = "cancelled"]
  /\ UNCHANGED <<cstream, wLast, times, wdlq, deliveredTo, cur, outcome, stats,
                 invoked, recorded>>
  /\ UNCHANGED notSpVars

\* The worker's task is cancelled (WorkerPoolManager.stop) while it handles a
\* message: CancelledError is raised at the await the task is suspended at
\* and is not caught by "except Exception", so no statement after that await
\* is reached: stats['processed'] is not counted, a dead-lettered message is
\* not acknowledged.  In process_event nothing more happens to the message.
\* A call handed to asyncio.to_thread that its thread has not made yet is
\* still made (WCancelledCall); one the thread has made stays made.
WCancel(w) ==
  /\ wpc[w] \in Handling
  /\ wpc' = [wpc EXCEPT ![w] = IF AwaitsXack(w) THEN "cancelled_xack"
                                ELSE IF wpc[w] = "dlq_add" THEN "cancelled_xadd"
                                ELSE "cancelled"]
  /\ UNCHANGED <<cstream, wLast, wpending, times, wacked, wdlq, deliveredTo, cur,
                 outcome, stats, invoked, recorded>>
  /\ UNCHANGED notSpVars

\* The thread of asyncio.to_thread makes its call after the task that awaited it
\* has been cancelled: the XACK or the XADD reaches the broker.
WCancelledCall(w) ==
  /\ wpc[w] \in {"cancelled_xack", "cancelled_xadd"}
  /\ IF wpc[w] = "cancelled_xack"
       THEN /\ wacked' = wacked \cup {cur[w]}
            /\ wpending' = wpending \ {cur[w]}
            /\ UNCHANGED wdlq
       ELSE /\ wdlq' = Append(wdlq, WorkerDlqEntry(cur[w], cstream[cur[w]].fields,
                                                   DeliveryCount(cur[w])))
            /\ UNCHANGED <<wacked, wpending>>
  /\ wpc' = [wpc EXCEPT ![w] = "cancelled"]
  /\ UNCHANGED <<cstream, wLast, times, deliveredTo, cur, outcome, stats,
                 invoked, recorded>>
  /\ UNCHANGED notSpVars

SlowNext ==
  \/ CdcPublish
  \/ Reclaimed
  \/ \E w \in Workers : WRead(w)
  \/ \E w \in Workers : WProcess(w)
  \/ \E w \in Workers : WSkipAck(w)
  \/ \E w \in Workers : WSkipReturn(w)
  \/ \E w \in Workers : WAck(w)
  \/ \E w \in Workers : WCount(w)
  \/ \E w \in Workers : WFinish(w)
  \/ \E w \in Workers : WDlqAdd(w)
  \/ \E w \in Workers : WDlqResume(w)
  \/ \E w \in Workers : WDlqAck(w)
  \/ \E w \in Workers : WDlqReturn(w)

\* The workers of a pool whose tasks may be cancelled.
CancelSlowNext ==
  \/ SlowNext
  \/ \E w \in Workers : WCancel(w)
  \/ \E w \in Workers : WCancelledCall(w)

(***************************************************************************)
(* SharedMetricsState (processing/metrics/shared_state.py): the store and  *)
(* its operations, as called by one client after the other.                *)
(***************************************************************************)
\* duration_ms values: enough distinct ones to overflow the window.
Durations == {10 * k : k \in 1..(WindowSize + 1)}

Tools == {"Read"}
Sessions == {"s1"}

\* Timestamps, in seconds: a session starts at 0 and ends SessionLength later.
StartTime == 0
EndTime == StartTime + SessionLength

\* An ISO-8601 timestamp text, written as its time in seconds, and the text ''
\* that event.get('timestamp', '') gives for an event without one.
Iso(t) == <<"iso", t>>
NoTimestamp == <<"text", "">>

\* str(x) of a number and float(s) / int(s) of such a string.
StrOf(x) == StrVal(x)
NumOf(m) == m[2]

\* ZADD key {member: score} with a score above every score of the set: a new
\* member is appended, an existing member only gets the new score.
ZAdd(z, member) == SelectSeq(z, LAMBDA x : x # member) \o <<member>>

\* ZPOPMIN key n
ZPopMin(z, n) == SubSeq(z, n + 1, Len(z))

\* The trim of add_latency and add_acceptance: zcard, then zpopmin of the excess.
Trim(z) == IF Len(z) > WindowSize THEN ZPopMin(z, Len(z) - WindowSize) ELSE z

\* HINCRBY, HGET ... or 0, HSET, HDEL on a hash held as a dict.
HGetInt(h, k) == Get(h, k, 0)
HIncrBy(h, k, n) == {f \in h : f[1] # k} \cup {<<k, HGetInt(h, k) + n>>}
HSet(h, k, v) == {f \in h : f[1] # k} \cup {<<k, v>>}
HDel(h, k) == {f \in h : f[1] # k}

RECURSIVE Insert(_, _)
\* v inserted into an ascending sequence.
Insert(sq, v) ==
  IF sq = <<>> THEN <<v>>
  ELSE IF v <= Head(sq) THEN <<v>> \o sq
  ELSE <<Head(sq)>> \o Insert(Tail(sq), v)

RECURSIVE Sorted(_)
\* sorted(list)
Sorted(sq) == IF sq = <<>> THEN <<>> ELSE Insert(Sorted(Tail(sq)), Head(sq))

RECURSIVE Sum(_)
Sum(sq) == IF sq = <<>> THEN 0 ELSE Head(sq) + Sum(Tail(sq))

Min(a, b) == IF a <= b THEN a ELSE b

\* An index counted from the end instead of from the start.
PercentileIndex_FromEnd(count, pct) == count - 1 - Min((count * pct) \div 100, count - 1)

\* min(int(count * p), count - 1) for p = pct / 100, as a 0-based index.
PercentileIndex(count, pct) == Min((count * pct) \div 100, count - 1)

\* A quotient num / den kept as the pair, and the value 0.0.
Ratio(num, den) == [num |-> num, den |-> den]
Zero == Ratio(0, 1)

\* get_latency_percentiles
GetLatencyPercentiles(z) ==
  LET latencies == Sorted([i \in 1..Len(z) |-> NumOf(z[i])])
      count == Len(latencies)
  IN IF count = 0
       THEN [p50 |-> 0, p95 |-> 0, p99 |-> 0, avg |-> Zero]
       ELSE [p50 |-> latencies[PercentileIndex(count, 50) + 1],
             p95 |-> latencies[PercentileIndex(count, 95) + 1],
             p99 |-> latencies[PercentileIndex(count, 99) + 1],
             avg |-> Ratio(Sum(latencies), count)]

\* get_acceptance_rate: sum(decisions) / len(decisions) * 100
GetAcceptanceRate(z) ==
  LET decisions == [i \in 1..Len(z) |-> NumOf(z[i])]
  IN IF Len(z) = 0 THEN Zero ELSE Ratio(Sum(decisions) * 100, Len(decisions))

RECURSIVE SumValues(_)
\* sum(int(v) for v in hash.values())
SumValues(h) ==
  IF h = {} THEN 0
  ELSE LET f == CHOOSE x \in h : TRUE IN f[2] + SumValues(h \ {f})

\* get_tool_success_rate(tool_name): the rate of the tool, or with tool_name
\* None or "" the rate over all tools.
GetToolSuccessRate(succ, fail, tool) ==
  LET success == IF tool \notin {PyNone, ""} THEN HGetInt(succ, tool) ELSE SumValues(succ)
      failures == IF tool \notin {PyNone, ""} THEN HGetInt(fail, tool) ELSE SumValues(fail)
  IN IF success + failures = 0 THEN Zero ELSE Ratio(success * 100, success + failures)

MsInit ==
  /\ latency_window = <<>> /\ acceptance_window = <<>>
  /\ tool_counts = {} /\ tool_success = {} /\ tool_failures = {}
  /\ session_starts = {} /\ session_tools = {} /\ session_prompts = {}
  /\ latencyCalls = <<>> /\ acceptanceCalls = <<>>

\* Calls made so far on the shared state.
Ops ==
  Len(latencyCalls) + Len(acceptanceCalls) + SumValues(tool_counts)
    + Cardinality(session_starts) + SumValues(session_tools) + SumValues(session_prompts)

windowVars == <<latency_window, acceptance_window, latencyCalls, acceptanceCalls>>
toolVars == <<tool_counts, tool_success, tool_failures>>
sessionVars == <<session_starts, session_tools, session_prompts>>

\* add_latency(duration_ms, tool_name)
AddLatency(duration_ms) ==
  /\ Ops < MaxOps
  /\ latency_window' = Trim(ZAdd(latency_window, StrOf(duration_ms)))
  /\ latencyCalls' = Append(latencyCalls, duration_ms)
  /\ UNCHANGED <<acceptance_window, acceptanceCalls, toolVars, sessionVars>>
  /\ UNCHANGED notMsVars

\* add_acceptance(accepted)
AddAcceptance(accepted) ==
  /\ Ops < MaxOps
  /\ acceptance_window' = Trim(ZAdd(acceptance_window, StrOf(IF accepted THEN 1 ELSE 0)))
  /\ acceptanceCalls' = Append(acceptanceCalls, accepted)
  /\ UNCHANGED <<latency_window, latencyCalls, toolVars, sessionVars>>
  /\ UNCHANGED notMsVars

\* increment_tool_count(tool_name, success)
IncrementToolCount(tool_name, success) ==
  /\ Ops < MaxOps
  /\ tool_counts' = HIncrBy(tool_counts, tool_name, 1)
  /\ tool_success' = IF success THEN HIncrBy(tool_success, tool_name, 1) ELSE tool_success
  /\ tool_failures' = IF success THEN tool_failures ELSE HIncrBy(tool_failures, tool_name, 1)
  /\ UNCHANGED <<windowVars, sessionVars>>
  /\ UNCHANGED notMsVars

\* set_session_start(session_id, timestamp)
SetSessionStart(session_id) ==
  /\ Ops < MaxOps
  /\ ~HasKey(session_starts, session_id)
  /\ session_starts' = HSet(session_starts, session_id, StartTime)
  /\ UNCHANGED <<windowVars, toolVars, session_tools, session_prompts>>
  /\ UNCHANGED notMsVars

\* increment_session_tool_count(session_id)
IncrementSessionToolCount(session_id) ==
  /\ Ops < MaxOps
  /\ session_tools' = HIncrBy(session_tools, session_id, 1)
  /\ UNCHANGED <<windowVars, toolVars, session_starts, session_prompts>>
  /\ UNCHANGED notMsVars

\* increment_session_prompt_count(session_id)
IncrementSessionPromptCount(session_id) ==
  /\ Ops < MaxOps
  /\ session_prompts' = HIncrBy(session_prompts, session_id, 1)
  /\ UNCHANGED <<windowVars, toolVars, session_starts, session_tools>>
  /\ UNCHANGED notMsVars

\* clear_session_data(session_id)
ClearSessionData(session_id) ==
  /\ session_starts' = HDel(session_starts, session_id)
  /\ session_tools' = HDel(session_tools, session_id)
  /\ session_prompts' = HDel(session_prompts, session_id)
  /\ sessionVars' # sessionVars
  /\ UNCHANGED <<windowVars, toolVars>>
  /\ UNCHANGED notMsVars

\* clear_all(): every key of the shared state is deleted.
ClearAll ==
  /\ latency_window' = <<>> /\ acceptance_window' = <<>>
  /\ tool_counts' = {} /\ tool_success' = {} /\ tool_failures' = {}
  /\ session_starts' = {} /\ session_tools' = {} /\ session_prompts' = {}
  /\ latencyCalls' = <<>> /\ acceptanceCalls' = <<>>
  /\ UNCHANGED notMsVars

SharedStateNext ==
  \/ \E d \in Durations : AddLatency(d)
  \/ \E a \in BOOLEAN : AddAcceptance(a)
  \/ \E t \in Tools, ok \in BOOLEAN : IncrementToolCount(t, ok)
  \/ \E sid \in Sessions : SetSessionStart(sid)
  \/ \E sid \in Sessions : IncrementSessionToolCount(sid)
  \/ \E sid \in Sessions : IncrementSessionPromptCount(sid)
  \/ \E sid \in Sessions : ClearSessionData(sid)
  \/ ClearAll

(***************************************************************************)
(* MetricsCalculator (processing/metrics/calculator.py).  Every metrics    *)
(* worker owns one instance.                                               *)
(***************************************************************************)
Calculators == {"c1", "c2"}

MinSamples == 10
CompositeEvery == 10

\* An event as the calculator receives it.
Event(type, extra) == {<<"event_type", type>>, <<"session_id", "s1">>} \cup extra

Payloads(key) == {{}, {<<key, TRUE>>}, {<<key, FALSE>>}}

\* The events handed to the calculators: tool_use with and without a success
\* field and with tool_name None, file_edit with and without an accepted
\* field, a prompt, and a session's start and end, the end also without a
\* timestamp.
CalcEventSet ==
  {Event("tool_use", {<<"tool_name", "Read">>, <<"duration_ms", 10>>, <<"payload", pl>>}) :
      pl \in Payloads("success")}
    \cup {Event("tool_use", {<<"tool_name", PyNone>>, <<"duration_ms", 10>>,
                             <<"payload", {}>>})}
    \cup {Event("file_edit", {<<"payload", pl>>}) : pl \in Payloads("accepted")}
    \cup {Event("user_prompt", {<<"payload", {}>>}),
          Event("session_start", {<<"timestamp", Iso(StartTime)>>}),
          Event("session_end", {<<"timestamp", Iso(EndTime)>>}),
          Event("session_end", {})}

\* MetricsCalculator.__init__
NewCalculator ==
  [latency_window |-> <<>>, acceptance_window |-> <<>>,
   tool_counts |-> {}, tool_success |-> {}, tool_failures |-> {},
   session_starts |-> {}, session_tool_counts |-> {}, session_prompt_counts |-> {},
   session_file_changes |-> {}, events_per_second |-> <<>>]

\* maxlen of _latency_window and _acceptance_window, and of _events_per_second
DequeMaxLen == 100
EpsMaxLen == 60

\* deque(maxlen=100).append
DequeAppend(q, x) == IF Len(q) >= DequeMaxLen THEN Tail(q) \o <<x>> ELSE Append(q, x)

\* deque(maxlen=60).append
EpsAppend(q, x) == IF Len(q) >= EpsMaxLen THEN Tail(q) \o <<x>> ELSE Append(q, x)

\* Reading a missing key of a defaultdict(int) creates it with the value 0.
Touch(d, k) == IF HasKey(d, k) THEN d ELSE d \cup {<<k, 0>>}

\* str.lower()
Lower(t) == IF t = "Read" THEN "read" ELSE t

Metric(category, name, value) == [category |-> category, name |-> name, value |-> value]

RatioAdd(a, b) == Ratio(a.num * b.den + b.num * a.den, a.den * b.den)
RatioLess(a, b) == a.num * b.den < b.num * a.den
\* max(0, min(100, score))
Clamp(score) ==
  IF RatioLess(score, Zero) THEN Zero
  ELSE IF RatioLess(Ratio(100, 1), score) THEN Ratio(100, 1) ELSE score

\* _calculate_latency_metrics
CalculateLatencyMetrics(st, event) ==
  IF ~HasKey(event, "duration_ms") \/ Get(event, "duration_ms", 0) < 0
    THEN [st |-> st, metrics |-> <<>>]
    ELSE LET w == DequeAppend(st.latency_window, Get(event, "duration_ms", 0))
             sorted_latencies == Sorted(w)
             pcts == IF Len(w) >= MinSamples
                       THEN << Metric("tools", <<"tool_latency_p50">>,
                                      Ratio(sorted_latencies[(Len(w) * 50) \div 100 + 1], 1)),
                               Metric("tools", <<"tool_latency_p95">>,
                                      Ratio(sorted_latencies[(Len(w) * 95) \div 100 + 1], 1)),
                               Metric("tools", <<"tool_latency_p99">>,
                                      Ratio(sorted_latencies[(Len(w) * 99) \div 100 + 1], 1)) >>
                       ELSE <<>>
         IN [st |-> [st EXCEPT !.latency_window = w],
             metrics |-> pcts \o <<Metric("tools", <<"tool_latency_avg">>,
                                          Ratio(Sum(w), Len(w)))>>]

\* _calculate_tool_usage_metrics: the counters it updates, the metrics it
\* returns and whether it raised on the way.
CalculateToolUsageMetrics(st, event) ==
  LET tool_name == Get(event, "tool_name", "unknown")
      success == Get(Get(event, "payload", {}), "success", TRUE)
      counts == HIncrBy(st.tool_counts, tool_name, 1)
      succ == IF success THEN HIncrBy(st.tool_success, tool_name, 1)
              ELSE Touch(st.tool_success, tool_name)
      fail == IF success THEN Touch(st.tool_failures, tool_name)
              ELSE HIncrBy(st.tool_failures, tool_name, 1)
      total_attempts == HGetInt(succ, tool_name) + HGetInt(fail, tool_name)
      total_success == SumValues(succ)
      total_failures == SumValues(fail)
      total_tools == SumValues(counts)
  IN [st |-> [st EXCEPT !.tool_counts = counts, !.tool_success = succ,
                         !.tool_failures = fail],
      \* tool_name.lower() of None raises AttributeError
      raised |-> total_attempts > 0 /\ tool_name = PyNone,
      metrics |->
        (IF total_attempts > 0
           THEN <<Metric("tools", <<"tool_success_rate", Lower(tool_name)>>,
                         Ratio(HGetInt(succ, tool_name) * 100, total_attempts))>>
           ELSE <<>>)
        \o (IF total_success + total_failures > 0
              THEN <<Metric("tools", <<"tool_success_rate">>,
                            Ratio(total_success * 100, total_success + total_failures))>>
              ELSE <<>>)
        \o (IF total_tools > 0
              THEN <<Metric("tools", <<"tool_frequency", Lower(tool_name)>>,
                            Ratio(HGetInt(counts, tool_name) * 100, total_tools))>>
              ELSE <<>>)]

\* _calculate_acceptance_metrics
CalculateAcceptanceMetrics(st, event) ==
  LET accepted == Get(Get(event, "payload", {}), "accepted", TRUE)
      w == DequeAppend(st.acceptance_window, IF accepted THEN 1 ELSE 0)
  IN [st |-> [st EXCEPT !.acceptance_window = w],
      metrics |->
        IF Len(w) >= MinSamples
          THEN << Metric("session", <<"acceptance_rate">>, Ratio(Sum(w) * 100, Len(w))),
                  Metric("session", <<"rejection_rate">>,
                         Ratio((Len(w) - Sum(w)) * 100, Len(w))) >>
          ELSE <<>>]

\* _calculate_interaction_metrics
CalculateInteractionMetrics(st, event) ==
  LET session_id == Get(event, "session_id", "")
      prompt_length == Get(Get(event, "payload", {}), "prompt_length", 0)
      counts == HIncrBy(st.session_prompt_counts, session_id, 1)
  IN [st |-> [st EXCEPT !.session_prompt_counts = counts],
      metrics |->
        (IF prompt_length > 0
           THEN <<Metric("session", <<"prompt_length_avg">>, Ratio(prompt_length, 1))>>
           ELSE <<>>)
        \o <<Metric("session", <<"prompts_per_session">>,
                    Ratio(HGetInt(counts, session_id), 1))>>]

\* _track_session_start
TrackSessionStart(st, event) ==
  [st |-> [st EXCEPT !.session_starts =
                        HSet(@, Get(event, "session_id", ""),
                             Get(event, "timestamp", NoTimestamp))],
   metrics |-> <<>>]

\* datetime.fromisoformat(text) raises ValueError for a text that is no
\* timestamp.
IsIso(text) == text[1] = "iso"

\* _calculate_session_metrics: when a timestamp does not parse, the except
\* branch is taken and no metric is returned; the session is deleted either
\* way.
CalculateSessionMetrics(st, event) ==
  LET session_id == Get(event, "session_id", "")
  IN IF ~HasKey(st.session_starts, session_id)
       THEN [st |-> st, metrics |-> <<>>]
       ELSE LET start_time == Get(st.session_starts, session_id, NoTimestamp)
                end_time == Get(event, "timestamp", NoTimestamp)
                duration_seconds == end_time[2] - start_time[2]
                tool_count == HGetInt(st.session_tool_counts, session_id)
                file_count == HGetInt(st.session_file_changes, session_id)
            IN [st |-> [st EXCEPT !.session_starts = HDel(@, session_id),
                                   !.session_tool_counts = HDel(@, session_id),
                                   !.session_file_changes = HDel(@, session_id)],
                metrics |->
                  IF ~(IsIso(start_time) /\ IsIso(end_time))
                    THEN <<>>
                    ELSE
                  <<Metric("session", <<"session_duration">>, Ratio(duration_seconds, 1))>>
                  \o (IF duration_seconds > 0
                        THEN <<Metric("session", <<"tools_per_minute">>,
                                      Ratio(tool_count * 60, duration_seconds))>>
                        ELSE <<>>)
                  \o <<Metric("session", <<"files_per_session">>, Ratio(file_count, 1))>>]

\* The seconds an event stays in the events-per-second sample.
EpsSeconds == 60

\* _calculate_throughput_metrics, with current_time = now.  _last_event_time is
\* written here and read nowhere.
CalculateThroughputMetrics(st, now) ==
  LET q == EpsAppend(st.events_per_second, now)
      recent_events == SelectSeq(q, LAMBDA t : now - t <= EpsSeconds)
      time_span == recent_events[Len(recent_events)] - recent_events[1]
  IN [st |-> [st EXCEPT !.events_per_second = q],
      metrics |->
        IF Len(recent_events) >= 2 /\ time_span > 0
          THEN <<Metric("realtime", <<"events_per_second">>,
                        Ratio(Len(recent_events), time_span))>>
          ELSE <<>>]

\* _calculate_composite_metrics
CalculateCompositeMetrics(st) ==
  LET total_success == SumValues(st.tool_success)
      total_failures == SumValues(st.tool_failures)
      total == total_success + total_failures
      base == Ratio(50, 1)
      withTools == IF total > 0
                     THEN RatioAdd(base, Ratio(total_success * 25, total)) ELSE base
      withErrors == IF total_failures > 0
                      THEN RatioAdd(withTools, Ratio(0 - total_failures * 15, total))
                      ELSE withTools
      withImpact == IF Len(st.acceptance_window) >= MinSamples
                      THEN RatioAdd(withErrors, Ratio(Sum(st.acceptance_window) * 10,
                                                      Len(st.acceptance_window)))
                      ELSE withErrors
  IN <<Metric("session", <<"productivity_score">>, Clamp(withImpact))>>

\* The branch of calculate_metrics_for_event for the event type: the metrics
\* extended so far, and whether a sub-calculator raised.
ForEventType(st, event) ==
  LET event_type == Get(event, "event_type", "")
      plain(r) == [st |-> r.st, metrics |-> r.metrics, raised |-> FALSE]
  IN IF event_type \in {"tool_use", "mcp_execution"}
       THEN LET l == CalculateLatencyMetrics(st, event)
                t == CalculateToolUsageMetrics(l.st, event)
            IN [st |-> t.st,
                metrics |-> IF t.raised THEN l.metrics ELSE l.metrics \o t.metrics,
                raised |-> t.raised]
     ELSE IF event_type \in {"file_edit", "code_change"}
       THEN plain(CalculateAcceptanceMetrics(st, event))
     ELSE IF event_type = "user_prompt" THEN plain(CalculateInteractionMetrics(st, event))
     ELSE IF event_type = "session_start" THEN plain(TrackSessionStart(st, event))
     ELSE IF event_type = "session_end" THEN plain(CalculateSessionMetrics(st, event))
     ELSE [st |-> st, metrics |-> <<>>, raised |-> FALSE]

\* calculate_metrics_for_event, with time.time() = now: the branch of the
\* event type, the throughput sample and, every tenth latency sample, the
\* composite metrics; "except Exception" returns the metrics extended before a
\* sub-calculator raised.
CalculateMetricsForEvent(st, event, now) ==
  LET r == ForEventType(st, event)
      t == CalculateThroughputMetrics(r.st, now)
      w == t.st.latency_window
  IN IF r.raised
       THEN [st |-> r.st, metrics |-> r.metrics]
       ELSE [st |-> t.st,
             metrics |-> r.metrics \o t.metrics
                           \o (IF Len(w) > 0 /\ Len(w) % CompositeEvery = 0
                                 THEN CalculateCompositeMetrics(t.st) ELSE <<>>)]

RECURSIVE SingleWorker(_)
\* One calculator processing all the events of a log, in order.
SingleWorker(log) ==
  IF Len(log) = 0 THEN [st |-> NewCalculator, metrics |-> <<>>]
  ELSE CHOOSE r \in {CalculateMetricsForEvent(before.st, log[Len(log)].event,
                                              log[Len(log)].now) :
                       before \in {SingleWorker(SubSeq(log, 1, Len(log) - 1))}} : TRUE

\* The calls of a calculator that has been running for a while: one short of
\* ten tool_use events, then one short of ten file_edit events.
WarmLog ==
  [k \in 1..(2 * (MinSamples - 1)) |->
     [by |-> "c1",
      event |-> IF k < MinSamples
                  THEN Event("tool_use", {<<"tool_name", "Read">>, <<"duration_ms", 10>>,
                                          <<"payload", {}>>})
                  ELSE Event("file_edit", {<<"payload", {}>>}),
      now |-> 0]]

IsWarm == Len(calcLog) >= Len(WarmLog) /\ SubSeq(calcLog, 1, Len(WarmLog)) = WarmLog

\* Events handed to the calculators one at a time.
Handed == IF IsWarm THEN Len(calcLog) - Len(WarmLog) ELSE Len(calcLog)

\* What time.time() may return: the latest reading any calculator took, or a
\* second later.
LastReading(st) ==
  IF st.events_per_second = <<>> THEN 0 ELSE st.events_per_second[Len(st.events_per_second)]

Latest(readings) == CHOOSE t \in readings : \A u \in readings : u <= t

Readings(last) == {t \in {last, last + 1} : t <= MaxTicks}

CalcInit ==
  /\ calc = [c \in Calculators |-> NewCalculator]
  /\ emitted = <<>>
  /\ calcLog = <<>>

\* A metrics worker hands an event to its calculator.
Calculate(c, event, now) ==
  /\ Handed < MaxCalcEvents
  /\ \E r \in {CalculateMetricsForEvent(calc[c], event, now)} :
        /\ calc' = [calc EXCEPT ![c] = r.st]
        /\ emitted' = r.metrics
  /\ calcLog' = Append(calcLog, [by |-> c, event |-> event, now |-> now])
  /\ UNCHANGED notCalcVars

\* The first calculator is handed the events of WarmLog, one call after the
\* other.
WarmUp ==
  /\ calcLog = <<>>
  /\ \E r \in {SingleWorker(WarmLog)} :
        /\ calc' = [calc EXCEPT !["c1"] = r.st]
        /\ emitted' = r.metrics
  /\ calcLog' = WarmLog
  /\ UNCHANGED notCalcVars

CalculatorNext ==
  \/ \E c \in Calculators, event \in CalcEventSet :
       \E now \in Readings(Latest({LastReading(calc[k]) : k \in Calculators})) :
          Calculate(c, event, now)
  \/ WarmUp

(***************************************************************************)
(* WorkerPoolManager (processing/slow_path/worker_pool.py) on its event    *)
(* loop.  start() runs without suspending; stop() suspends at each "await  *)
(* task" and is resumed by the event loop.  The ready queue of the loop is *)
(* served first in, first out.  Two callers make the calls; one caller's   *)
(* calls follow one another, server.py makes them so.                      *)
(***************************************************************************)
Configs == [enabled : BOOLEAN, count : 0..MaxWorkers]

\* The tasks that call start() and stop().
PoolCallers == {"main", "other"}

\* MetricsWorker.__init__: it builds its calculator as
\* MetricsCalculator(self.shared_state), and MetricsCalculator.__init__ takes
\* no argument, so the constructor raises TypeError.
MetricsWorkerInit(consumer_name) ==
  [raised |-> TRUE, worker |-> [consumer_name |-> consumer_name, running |-> FALSE]]

\* asyncio.create_task: a task of the event loop, not yet run, awaited by nobody.
\* The target of a worker's task is the worker object it was created for, named
\* by its position in self.workers; the monitor's task has none (0).
CreateTask(kind, target) ==
  [kind |-> kind, target |-> target, state |-> "pending", waiters |-> <<>>]

RECURSIVE StartMetricsWorkers(_, _, _, _)
\* _start_metrics_workers from its i-th iteration on: the workers list it
\* leaves behind, the tasks it created and whether a constructor raised.
StartMetricsWorkers(i, worker_count, workers, tasks) ==
  IF i > worker_count THEN [raised |-> FALSE, workers |-> workers, tasks |-> tasks]
  ELSE LET made == MetricsWorkerInit(<<"metrics-worker", i>>)
       IN IF made.raised THEN [raised |-> TRUE, workers |-> workers, tasks |-> tasks]
          ELSE StartMetricsWorkers(i + 1, worker_count, Append(workers, made.worker),
                 Append(tasks, CreateTask("worker", Len(workers) + 1)))

\* Number of workers the configuration asks for.
ConfiguredWorkers == IF worker_config.enabled THEN worker_config.count ELSE 0

\* Handles of n tasks appended to the tasks of the event loop.
NewHandles(n) == [k \in 1..n |-> Len(loopTasks) + k]

\* Entries of the ready queue: the next step of a task, and the resumption of
\* the stop() of a caller whose awaited task has ended.
StepOf(h) == [kind |-> "step", task |-> h, caller |-> "none"]
WakeOf(c) == [kind |-> "wake", task |-> 0, caller |-> c]

\* task.done()
Done(t) == t.state \in {"done", "cancelled"}

\* task.cancel(): the request is kept until the task's next step.  On a task
\* that has ended, or that has a request already, nothing changes.
Cancel(t) ==
  IF t.state = "pending" THEN [t EXCEPT !.state = "pending_cancel"]
  ELSE IF t.state = "running" THEN [t EXCEPT !.state = "running_cancel"]
  ELSE t

\* task.cancel() on a task suspended at an await schedules the step that raises
\* CancelledError there; the first step of a task that never ran is scheduled
\* already.
CancelSteps(t, h) == IF t.state = "running" THEN <<StepOf(h)>> ELSE <<>>

\* One step of a task.  The first step of _monitor_backpressure: with the pool
\* running it enters its loop and sleeps, otherwise it returns.  The first step of
\* _run_worker: worker.start() enters _run and waits for its read.  A task
\* cancelled before its first step ends cancelled without running; the monitor
\* cancelled in its sleep ends cancelled; _run_worker catches the cancellation and
\* returns, so its task ends done.
RunStep(t, isRunning) ==
  IF t.state = "pending"
    THEN [t EXCEPT !.state = IF t.kind = "monitor" /\ ~isRunning THEN "done" ELSE "running"]
  ELSE IF t.state = "pending_cancel" THEN [t EXCEPT !.state = "cancelled"]
  ELSE IF t.state = "running_cancel"
    THEN [t EXCEPT !.state = IF t.kind = "worker" THEN "done" ELSE "cancelled"]
  ELSE t

\* "for task in self.worker_tasks: if not task.done()": the position of the next
\* task of the list, from the given position on, that has not ended; 0 when the
\* list has none.
NextNotDone(handles, all, from) ==
  IF \E n \in from..Len(handles) : ~Done(all[handles[n]])
    THEN CHOOSE n \in from..Len(handles) :
           /\ ~Done(all[handles[n]])
           /\ \A m \in from..(n - 1) : Done(all[handles[m]])
    ELSE 0

\* worker.stop() for every worker of the list.
StopWorkers(workers) == [n \in 1..Len(workers) |-> [workers[n] EXCEPT !.running = FALSE]]

\* worker.start() of the worker a task runs: self.running = True on that one
\* object, the worker at position target of the list; workers of the same
\* consumer_name that an overlapping start() appended are other objects.
StartWorker(workers, target) ==
  [n \in 1..Len(workers) |->
     IF n = target THEN [workers[n] EXCEPT !.running = TRUE] ELSE workers[n]]

\* The configuration __init__ uses when it is given none.
DefaultConfig == [enabled |-> TRUE, count |-> 2]

\* A caller that is not inside stop().
NoStop == [i |-> 0, task |-> 0]

PoolInit ==
  /\ worker_config = DefaultConfig
  /\ poolRunning = FALSE
  /\ poolWorkers = <<>>
  /\ worker_tasks = <<>>
  /\ loopTasks = <<>>
  /\ readyQ = <<>>
  /\ stopAt = [c \in PoolCallers |-> NoStop]
  /\ poolCalls = <<>>

\* The calls that have returned and those still suspended.
CallsMade == Len(poolCalls) + Cardinality({c \in PoolCallers : stopAt[c] # NoStop})

\* Caller c makes a call: it is inside no call of its own.  The stop() of the
\* other caller may be suspended at that moment.
Calls(c) ==
  /\ stopAt[c] = NoStop
  /\ CallsMade < MaxCalls

\* The call returns.
Returned(call, result) == poolCalls' = Append(poolCalls, [call |-> call, result |-> result])

\* WorkerPoolManager(worker_config=cfg): a manager built with a configuration
\* of its own, before any call is made on it.
NewPool(cfg) ==
  /\ poolCalls = <<>>
  /\ worker_config = DefaultConfig /\ cfg # DefaultConfig
  /\ worker_config' = cfg
  /\ UNCHANGED <<poolRunning, poolWorkers, worker_tasks, loopTasks, readyQ, stopAt,
                 poolCalls, notPoolVars>>

\* The lists and the event loop after the body of start() created its tasks.
Started(r, monitor) ==
  LET created == r.tasks \o monitor
  IN /\ poolWorkers' = r.workers
     /\ worker_tasks' = worker_tasks \o NewHandles(Len(created))
     /\ loopTasks' = loopTasks \o created
     /\ readyQ' = readyQ \o [n \in 1..Len(created) |-> StepOf(Len(loopTasks) + n)]

\* WorkerPoolManager.start
PoolStart(c) ==
  /\ Calls(c)
  /\ IF poolRunning
       THEN /\ Returned("start", "already_running")
            /\ UNCHANGED <<poolRunning, poolWorkers, worker_tasks, loopTasks, readyQ>>
       ELSE \E r \in {IF worker_config.enabled
                        THEN StartMetricsWorkers(1, worker_config.count, poolWorkers, <<>>)
                        ELSE [raised |-> FALSE, workers |-> poolWorkers, tasks |-> <<>>]} :
               IF r.raised
                 THEN /\ Started(r, <<>>)
                      /\ poolRunning' = FALSE
                      /\ Returned("start", "raised")
                 ELSE /\ Started(r, <<CreateTask("monitor", 0)>>)
                      /\ poolRunning' = TRUE
                      /\ Returned("start", "started")
  /\ UNCHANGED <<worker_config, stopAt, notPoolVars>>

\* The loop of stop() over self.worker_tasks from the given position on, up to
\* its next suspension: the next task that has not ended is cancelled and
\* awaited; when there is none, both lists are cleared and stop() returns.
StopFrom(c, from, workers, queue) ==
  \E n \in {NextNotDone(worker_tasks, loopTasks, from)} :
     IF n = 0
       THEN /\ poolWorkers' = <<>>
            /\ worker_tasks' = <<>>
            /\ stopAt' = [stopAt EXCEPT ![c] = NoStop]
            /\ readyQ' = queue
            /\ Returned("stop", "stopped")
            /\ UNCHANGED loopTasks
       ELSE /\ poolWorkers' = workers
            /\ loopTasks' = [loopTasks EXCEPT ![worker_tasks[n]] =
                               [Cancel(@) EXCEPT !.waiters = Append(@, c)]]
            /\ readyQ' = queue \o CancelSteps(loopTasks[worker_tasks[n]], worker_tasks[n])
            /\ stopAt' = [stopAt EXCEPT ![c] = [i |-> n, task |-> worker_tasks[n]]]
            /\ UNCHANGED <<worker_tasks, poolCalls>>

\* WorkerPoolManager.stop up to its first suspension: running is set false and
\* every worker is stopped, then the loop over the tasks begins.
PoolStop(c) ==
  /\ Calls(c)
  /\ IF ~poolRunning
       THEN /\ Returned("stop", "not_running")
            /\ UNCHANGED <<poolRunning, poolWorkers, worker_tasks, loopTasks, readyQ,
                           stopAt>>
       ELSE /\ poolRunning' = FALSE
            /\ StopFrom(c, 1, StopWorkers(poolWorkers), readyQ)
  /\ UNCHANGED <<worker_config, notPoolVars>>

\* The event loop resumes a stop() whose awaited task has ended: "except
\* asyncio.CancelledError: pass", and the loop over the tasks goes on with the
\* list as it is now.
StopResume ==
  /\ readyQ # <<>> /\ Head(readyQ).kind = "wake"
  /\ StopFrom(Head(readyQ).caller, stopAt[Head(readyQ).caller].i + 1, poolWorkers,
              Tail(readyQ))
  /\ UNCHANGED <<worker_config, poolRunning, notPoolVars>>

\* The event loop runs the next step of a task.  When the task ends with it,
\* the callers awaiting it are scheduled in the order they began to wait.
TaskStep ==
  /\ readyQ # <<>> /\ Head(readyQ).kind = "step"
  /\ \E h \in {Head(readyQ).task} :
     \E after \in {RunStep(loopTasks[h], poolRunning)} :
        /\ loopTasks' = [loopTasks EXCEPT ![h] =
                           [after EXCEPT !.waiters = IF Done(after) THEN <<>> ELSE @]]
        /\ readyQ' = Tail(readyQ) \o
                       (IF Done(after)
                          THEN [n \in 1..Len(after.waiters) |-> WakeOf(after.waiters[n])]
                          ELSE <<>>)
        /\ poolWorkers' = IF after.kind = "worker" /\ loopTasks[h].state = "pending"
                            THEN StartWorker(poolWorkers, after.target)
                            ELSE poolWorkers
  /\ UNCHANGED <<worker_config, poolRunning, worker_tasks, stopAt, poolCalls,
                 notPoolVars>>

PoolNext ==
  \/ \E cfg \in Configs : NewPool(cfg)
  \/ \E c \in PoolCallers : PoolStart(c)
  \/ \E c \in PoolCallers : PoolStop(c)
  \/ StopResume
  \/ TaskStep

(***************************************************************************)
(* BatchManager (processing/fast_path/batch_manager.py) on its own, with   *)
(* the clock it reads and the lock its methods take.  A method that writes *)
(* is two steps, both inside the lock.                                     *)
(***************************************************************************)
Threads == {"t1", "t2"}

\* _first_event_time = None
NoTime == -1
\* Nobody holds the lock.
NoThread == "none"

\* A lock that never blocks.
CanAcquire_NoLock(holder) == TRUE

\* "with self._lock": entered only while nobody holds the lock.
CanAcquire(holder) == holder = NoThread

\* A timer restarted by every event.
FirstEventTime_Latest(events, first, now) == now

\* add_event: the timer starts with the first event of a batch.
FirstEventTime(events, first, now) == IF Len(events) = 0 THEN now ELSE first

\* should_flush
ShouldFlushAt(events, first, now) ==
  IF Len(events) = 0 THEN FALSE
  ELSE IF first = NoTime THEN FALSE
  ELSE now - first >= BatchTimeout

BmInit ==
  /\ bm_events = <<>>
  /\ first_event_time = NoTime
  /\ lock = NoThread
  /\ clock = 0
  /\ bmPc = [t \in Threads |-> "idle"]
  /\ bmLocal = [t \in Threads |-> <<>>]
  /\ bmResult = [op |-> "none", value |-> FALSE]
  /\ appended = 0
  /\ appendTimes = <<>>
  /\ returned = <<>>
  /\ drainTime = 0
  /\ cleared = {}

\* time passes
Tick ==
  /\ clock < MaxTime
  /\ clock' = clock + 1
  /\ UNCHANGED <<bm_events, first_event_time, lock, bmPc, bmLocal, bmResult, appended,
                 appendTimes, returned, drainTime, cleared, notBmVars>>

\* add_event up to the append: the lock is taken and the timer is started
\* if the batch is empty.
AddBegin(t) ==
  /\ bmPc[t] = "idle" /\ appended < MaxAdds
  /\ CanAcquire(lock)
  /\ lock' = t
  /\ first_event_time' = FirstEventTime(bm_events, first_event_time, clock)
  /\ bmPc' = [bmPc EXCEPT ![t] = "add"]
  /\ UNCHANGED <<bm_events, clock, bmLocal, bmResult, appended, appendTimes, returned,
                 drainTime, cleared, notBmVars>>

\* add_event from the append on: the event is appended, the size is compared
\* with batch_size and the lock is released.
AddEnd(t) ==
  /\ bmPc[t] = "add"
  /\ bm_events' = Append(bm_events, appended + 1)
  /\ appended' = appended + 1
  /\ appendTimes' = Append(appendTimes, clock)
  /\ bmResult' = [op |-> "add_event", value |-> Ready(bm_events')]
  /\ lock' = NoThread
  /\ bmPc' = [bmPc EXCEPT ![t] = "idle"]
  /\ UNCHANGED <<first_event_time, clock, bmLocal, returned, drainTime, cleared, notBmVars>>

\* get_batch up to the copy: the lock is taken and the events are copied.
GetBegin(t) ==
  /\ bmPc[t] = "idle" /\ Len(returned) < MaxGets
  /\ CanAcquire(lock)
  /\ lock' = t
  /\ bmLocal' = [bmLocal EXCEPT ![t] = bm_events]
  /\ bmPc' = [bmPc EXCEPT ![t] = "get"]
  /\ UNCHANGED <<bm_events, first_event_time, clock, bmResult, appended, appendTimes,
                 returned, drainTime, cleared, notBmVars>>

\* get_batch from the clear on: the deque is cleared, the timer is reset, the
\* lock is released and the copy is returned.
GetEnd(t) ==
  /\ bmPc[t] = "get"
  /\ bm_events' = <<>>
  /\ first_event_time' = NoTime
  /\ appendTimes' = <<>>
  /\ returned' = Append(returned, bmLocal[t])
  /\ bmResult' = [op |-> "get_batch", value |-> bmLocal[t] # <<>>]
  /\ bmLocal' = [bmLocal EXCEPT ![t] = <<>>]
  /\ lock' = NoThread
  /\ bmPc' = [bmPc EXCEPT ![t] = "idle"]
  /\ drainTime' = clock
  /\ UNCHANGED <<clock, appended, cleared, notBmVars>>

\* clear(): under the lock the deque is cleared and the timer is reset; the
\* events of the batch are returned to nobody.
Clear(t) ==
  /\ bmPc[t] = "idle"
  /\ CanAcquire(lock)
  /\ bm_events # <<>>
  /\ bm_events' = <<>>
  /\ first_event_time' = NoTime
  /\ appendTimes' = <<>>
  /\ cleared' = cleared \cup Range(bm_events)
  /\ bmResult' = [op |-> "clear", value |-> FALSE]
  /\ UNCHANGED <<lock, clock, bmPc, bmLocal, appended, returned, drainTime, notBmVars>>

\* should_flush
CallShouldFlush(t) ==
  /\ bmPc[t] = "idle"
  /\ CanAcquire(lock)
  /\ bmResult' = [op |-> "should_flush",
                  value |-> ShouldFlushAt(bm_events, first_event_time, clock)]
  /\ bmResult' # bmResult
  /\ UNCHANGED <<bm_events, first_event_time, lock, clock, bmPc, bmLocal, appended,
                 appendTimes, returned, drainTime, cleared, notBmVars>>

BatchManagerNext ==
  \/ Tick
  \/ \E t \in Threads :
       \/ AddBegin(t)
       \/ AddEnd(t)
       \/ GetBegin(t)
       \/ GetEnd(t)
       \/ Clear(t)
       \/ CallShouldFlush(t)

(***************************************************************************)
(* The two _handle_failed_message methods, of FastPathConsumer and of      *)
(* WorkerBase, called with any message and any count; both add to the      *)
(* stream "telemetry:dlq".                                                 *)
(***************************************************************************)
DlqInit == dlq = <<>>

\* FastPathConsumer._handle_failed_message(message_id, None, retry_count)
ConsumerHandleFailed(id, retry_count) ==
  /\ Len(dlq) < MaxDlq
  /\ dlq' = IF retry_count >= max_retries THEN Append(dlq, DlqEntry([id |-> id])) ELSE dlq
  /\ UNCHANGED notDlqVars

\* WorkerBase._handle_failed_message for a message whose delivery count
\* the broker reports as count.
WorkerHandleFailed(id, fields, count) ==
  /\ Len(dlq) < MaxDlq
  /\ dlq' = IF MovesToDlq(count) THEN Append(dlq, WorkerDlqEntry(id, fields, count)) ELSE dlq
  /\ UNCHANGED notDlqVars

DlqNext ==
  \E id \in 1..MaxMsgs :
    \/ \E retry_count \in 0..max_retries : ConsumerHandleFailed(id, retry_count)
    \/ \E entry \in CdcEntries, count \in 1..MaxRetries :
         WorkerHandleFailed(id, entry.fields, count)

(***************************************************************************)
(* MetricsWorker (processing/slow_path/metrics_worker.py): one worker's    *)
(* _process_message, with process_event and _fetch_event_from_sqlite,      *)
(* against the raw_traces table.  The worker is taken with the priority    *)
(* filter its constructor sets and with the filter off, which is the only  *)
(* configuration in which a message gets as far as process_event.          *)
(***************************************************************************)
\* The text of a field value: decimal digits of a number, or letters.
Digits(n) == [digits |-> TRUE, n |-> n]
Letters == [digits |-> FALSE, n |-> 0]

\* Sequence fields a pointer carries: of the first row of the table, of a row
\* beyond the table, and one that is not a number.
SequenceTexts == {Digits(n) : n \in {1, MaxCdc + 1}} \cup {Letters}

\* Messages of "cdc:events" as the worker is handed them.
PointerFields ==
  {seq \cup prio :
     seq \in {{<<"sequence", BytesVal(t)>>} : t \in SequenceTexts} \cup {{}},
     prio \in {{<<"priority", BytesVal(2)>>}, {}}}

\* int(x) of an int or of a str: ValueError for text that is not a number.
PyInt(x) ==
  IF x[1] = "int" THEN [raised |-> FALSE, value |-> x[2]]
  ELSE IF x[2].digits THEN [raised |-> FALSE, value |-> x[2].n]
  ELSE [raised |-> TRUE, value |-> 0]

\* Rows of tool_use events: the indexed columns and the decompressed event_data.
TraceRows ==
  [columns : {Event("tool_use", {<<"tool_name", "Read">>, <<"duration_ms", 10>>})},
   event_data : {{<<"payload", {<<"success", FALSE>>}>>}}]

\* _fetch_event_from_sqlite: None when no row has the sequence, else the
\* columns with the payload of the decompressed event_data.
FetchEventFromSqlite(table, sequence) ==
  IF sequence \in DOMAIN table
    THEN [found |-> TRUE,
          event |-> table[sequence].columns
                      \cup {<<"payload", Get(table[sequence].event_data, "payload", {})>>}]
    ELSE [found |-> FALSE, event |-> {}]

\* The worker after MetricsWorker.__init__ raised: self.calculator was never
\* assigned.
NoCalculator == [assigned |-> FALSE]

\* The pointer names a sequence, other than 0, that has no row in the table.
FetchMiss(table, cdc_event) ==
  LET sequence == PyInt(Get(cdc_event, "sequence", IntVal(0)))
  IN ~sequence.raised /\ sequence.value # 0 /\ sequence.value \notin DOMAIN table

\* A process_event that raises when the row is not there.
ProcessEvent_MissRaises(st, table, cdc_event, now) ==
  LET sequence == PyInt(Get(cdc_event, "sequence", IntVal(0)))
      full_event == FetchEventFromSqlite(table, sequence.value)
  IN IF sequence.raised \/ (sequence.value # 0 /\ ~full_event.found)
       THEN [raised |-> TRUE, st |-> st, metrics |-> <<>>, fetched |-> ~sequence.raised]
     ELSE IF sequence.value = 0
       THEN [raised |-> FALSE, st |-> st, metrics |-> <<>>, fetched |-> FALSE]
     ELSE IF st = NoCalculator
       THEN [raised |-> TRUE, st |-> st, metrics |-> <<>>, fetched |-> TRUE]
     ELSE LET r == CalculateMetricsForEvent(st, full_event.event, now)
          IN [raised |-> FALSE, st |-> r.st, metrics |-> r.metrics, fetched |-> TRUE]

\* MetricsWorker.process_event: the calculator's new state, the metrics to
\* record, whether it raised and whether it queried the table.  It suspends
\* nowhere.  On a worker without a calculator, self.calculator raises
\* AttributeError once a row was fetched.
ProcessEvent(st, table, cdc_event, now) ==
  LET sequence == PyInt(Get(cdc_event, "sequence", IntVal(0)))
      full_event == FetchEventFromSqlite(table, sequence.value)
  IN IF sequence.raised
       THEN [raised |-> TRUE, st |-> st, metrics |-> <<>>, fetched |-> FALSE]
     ELSE IF sequence.value = 0
       THEN [raised |-> FALSE, st |-> st, metrics |-> <<>>, fetched |-> FALSE]
     ELSE IF ~full_event.found
       THEN [raised |-> FALSE, st |-> st, metrics |-> <<>>, fetched |-> TRUE]
     ELSE IF st = NoCalculator
       THEN [raised |-> TRUE, st |-> st, metrics |-> <<>>, fetched |-> TRUE]
     ELSE LET r == CalculateMetricsForEvent(st, full_event.event, now)
          IN [raised |-> FALSE, st |-> r.st, metrics |-> r.metrics, fetched |-> TRUE]

\* No delivery-count lookup was made.
NoLookup == [raised |-> FALSE, found |-> FALSE, times |-> 0]

\* The worker between two messages.
IdleTask ==
  [step |-> "idle", cancelled |-> FALSE, id |-> 0, fields |-> {}, filter |-> FALSE,
   fetched |-> FALSE, miss |-> FALSE, recorded |-> 0, failed |-> FALSE,
   lookup |-> NoLookup, dlq_error |-> FALSE]

\* The worker as MetricsWorker.__init__ leaves it when it raises at its line
\* 77: the attributes WorkerBase.__init__ set, sqlite_client, metrics_storage
\* and shared_state, and no calculator.
MwInit ==
  /\ raw_traces = <<>>
  /\ calculator = NoCalculator
  /\ metrics_storage = <<>>
  /\ mwAcked = {} /\ mwStats = NoStats /\ mwDlq = <<>>
  /\ handled = <<>>
  /\ mwTask = IdleTask

\* The writer commits a row; it gets the next sequence.
InsertRow(row) ==
  /\ Len(raw_traces) < MaxCdc
  /\ raw_traces' = Append(raw_traces, row)
  /\ UNCHANGED <<calculator, metrics_storage, mwAcked, mwStats, mwDlq, handled, mwTask>>
  /\ UNCHANGED notMwVars

\* What time.time() returns to the calculator.
MwReadings == IF calculator = NoCalculator THEN {0} ELSE Readings(LastReading(calculator))

\* Where _process_message waits for a call it handed to asyncio.to_thread, the
\* thread not having made the call yet, and where the call was made and the
\* coroutine has not resumed.
MwAwaiting == {"skip_ack", "ack", "lookup", "dlq_add", "dlq_ack"}
MwCalled == {"skip_acked", "acked", "looked", "dlq_added", "dlq_failed", "dlq_acked"}

\* _process_message of a worker whose priorities are prio, for the next message
\* of the stream, up to its first await: the XACK of a message the filter skips,
\* the XACK after process_event returned, or the XPENDING of
\* _handle_failed_message after process_event raised and stats['failed'] was
\* counted.
MwProcessMessage(fields, prio, now) ==
  /\ mwTask.step = "idle"
  /\ Len(handled) < MaxCdc
  /\ \E id \in {Len(handled) + 1} :
     \E event \in {DecodeMessage(fields)} :
     \E r \in {ProcessEvent(calculator, raw_traces, event, now)} :
     \E t \in {[IdleTask EXCEPT !.id = id, !.fields = fields, !.filter = ~prio.none]} :
        IF ~PassesFilter(prio, event)
          THEN /\ mwTask' = [t EXCEPT !.step = "skip_ack"]
               /\ UNCHANGED <<calculator, metrics_storage, mwStats>>
        ELSE IF ~r.raised
          THEN /\ calculator' = r.st
               /\ metrics_storage' = metrics_storage \o r.metrics
               /\ mwTask' = [t EXCEPT !.step = "ack", !.fetched = r.fetched,
                                      !.miss = FetchMiss(raw_traces, event),
                                      !.recorded = Len(r.metrics)]
               /\ UNCHANGED mwStats
        ELSE /\ mwStats' = [mwStats EXCEPT !.failed = @ + 1]
             /\ mwTask' = [t EXCEPT !.step = "lookup", !.fetched = r.fetched,
                                    !.miss = FetchMiss(raw_traces, event),
                                    !.failed = TRUE]
             /\ UNCHANGED <<calculator, metrics_storage>>
  /\ UNCHANGED <<raw_traces, mwAcked, mwDlq, handled>>
  /\ UNCHANGED notMwVars

\* The thread makes the XACK the coroutine waits for, or waited for when it was
\* cancelled.
MwXack ==
  /\ mwTask.step \in {"skip_ack", "ack", "dlq_ack"}
  /\ mwAcked' = mwAcked \cup {mwTask.id}
  /\ mwTask' = [mwTask EXCEPT !.step = IF @ = "skip_ack" THEN "skip_acked"
                                       ELSE IF @ = "ack" THEN "acked" ELSE "dlq_acked"]
  /\ UNCHANGED <<raw_traces, calculator, metrics_storage, mwStats, mwDlq, handled>>
  /\ UNCHANGED notMwVars

\* The thread makes the XPENDING of _get_delivery_count; lookup is its answer.
MwXpending(lookup) ==
  /\ mwTask.step = "lookup"
  /\ mwTask' = [mwTask EXCEPT !.step = "looked", !.lookup = lookup]
  /\ UNCHANGED <<raw_traces, calculator, metrics_storage, mwAcked, mwStats, mwDlq, handled>>
  /\ UNCHANGED notMwVars

\* The thread makes the XADD to "telemetry:dlq"; xaddUp is whether it succeeds.
MwXadd(xaddUp) ==
  /\ mwTask.step = "dlq_add"
  /\ mwDlq' = IF xaddUp
                THEN Append(mwDlq, WorkerDlqEntry(mwTask.id, mwTask.fields,
                                                  GetDeliveryCount(mwTask.lookup)))
                ELSE mwDlq
  /\ mwTask' = [mwTask EXCEPT !.step = IF xaddUp THEN "dlq_added" ELSE "dlq_failed"]
  /\ UNCHANGED <<raw_traces, calculator, metrics_storage, mwAcked, mwStats, handled>>
  /\ UNCHANGED notMwVars

\* The message is done with: _process_message returns.
MwReturn(step) ==
  /\ handled' = Append(handled, [mwTask EXCEPT !.step = step])
  /\ mwTask' = IdleTask

\* The coroutine resumes after the call it waited for.  After the XACK of a
\* processed message it counts stats['processed']; after the lookup
\* _handle_failed_message goes on to the XADD when the count has reached the
\* threshold and returns otherwise; after the XADD, or in the except branch
\* when the XADD raised, it goes on to the XACK.
MwResume ==
  /\ mwTask.step \in MwCalled /\ ~mwTask.cancelled
  /\ IF mwTask.step = "skip_acked" THEN MwReturn("skipped") /\ UNCHANGED mwStats
     ELSE IF mwTask.step = "acked"
       THEN /\ MwReturn("processed")
            /\ mwStats' = [mwStats EXCEPT !.processed = @ + 1]
     ELSE IF mwTask.step = "looked"
       THEN /\ IF MovesToDlq(GetDeliveryCount(mwTask.lookup))
                 THEN mwTask' = [mwTask EXCEPT !.step = "dlq_add"] /\ UNCHANGED handled
                 ELSE MwReturn("failed")
            /\ UNCHANGED mwStats
     ELSE IF mwTask.step = "dlq_acked" THEN MwReturn("failed") /\ UNCHANGED mwStats
     ELSE /\ mwTask' = [mwTask EXCEPT !.step = "dlq_ack",
                                      !.dlq_error = (mwTask.step = "dlq_failed")]
          /\ UNCHANGED <<handled, mwStats>>
  /\ UNCHANGED <<raw_traces, calculator, metrics_storage, mwAcked, mwDlq>>
  /\ UNCHANGED notMwVars

\* The worker's task is cancelled while _process_message waits: the coroutine
\* goes no further, and a call the thread has not made yet is still made.
MwCancel ==
  /\ mwTask.step \in MwAwaiting \cup MwCalled /\ ~mwTask.cancelled
  /\ mwTask' = [mwTask EXCEPT !.cancelled = TRUE]
  /\ UNCHANGED <<raw_traces, calculator, metrics_storage, mwAcked, mwStats, mwDlq, handled>>
  /\ UNCHANGED notMwVars

MetricsWorkerNext ==
  \/ \E row \in TraceRows : InsertRow(row)
  \/ \E fields \in PointerFields, prio \in {MetricsPriorities, AllPriorities} :
       \E now \in MwReadings : MwProcessMessage(fields, prio, now)
  \/ MwXack
  \/ \E lookup \in PelLookups : MwXpending(lookup)
  \/ \E xaddUp \in BOOLEAN : MwXadd(xaddUp)
  \/ MwResume
  \/ MwCancel

(***************************************************************************)
(* Two FastPathConsumer instances of one group, each under its own         *)
(* consumer name.  Of a consumer only its dealings with the pending-       *)
(* entries list are kept: read, flush with acknowledgement, reclaim.       *)
(***************************************************************************)
Consumers == {"fast-path-1", "fast-path-2"}
NoConsumer == "nobody"

\* xpending_range(..., consumername=self.consumer_name): the pending entries
\* of the group's list that belong to the consumer.
PendingOf(c) == {m \in grpPel : grpOwner[m] = c}

\* A consumer between two calls of its loop.
GrpLoop == [at |-> "loop", ids |-> <<>>]

GrpInit ==
  /\ grpStream = 0 /\ grpLast = 0
  /\ grpOwner = [m \in 1..MaxMsgs |-> NoConsumer]
  /\ grpPel = {} /\ grpIdle = {} /\ grpWaiting = <<>> /\ grpAcked = {}
  /\ grpRows = <<>>
  /\ grpHeld = [c \in Consumers |-> {}]
  /\ grpMap = [c \in Consumers |-> {}]
  /\ grpPc = [c \in Consumers |-> GrpLoop]
  /\ alive = Consumers

\* A producer appends an entry.
GrpEnqueue ==
  /\ grpStream < MaxMsgs
  /\ grpStream' = grpStream + 1
  /\ UNCHANGED <<grpLast, grpOwner, grpPel, grpIdle, grpWaiting, grpAcked, grpRows,
                 grpHeld, grpMap, grpPc, alive>>
  /\ UNCHANGED notGrpVars

\* _read_messages: XREADGROUP ">" with count = batch_size delivers the new entries
\* to the consumer; run() builds message_map from them.
GrpRead(c) ==
  /\ c \in alive /\ grpPc[c] = GrpLoop /\ grpMap[c] = {} /\ grpLast < grpStream
  /\ \E last \in {IF grpStream < grpLast + BatchSize
                    THEN grpStream ELSE grpLast + BatchSize} :
        /\ grpLast' = last
        /\ grpOwner' = [m \in 1..MaxMsgs |->
                          IF m \in (grpLast + 1)..last THEN c ELSE grpOwner[m]]
        /\ grpPel' = grpPel \cup (grpLast + 1)..last
        /\ grpWaiting' = Append(grpWaiting, (grpLast + 1)..last)
        /\ grpMap' = [grpMap EXCEPT ![c] = (grpLast + 1)..last]
  /\ UNCHANGED <<grpStream, grpIdle, grpAcked, grpRows, grpHeld, grpPc, alive>>
  /\ UNCHANGED notGrpVars

\* The events get_batch drains when the batch reaches batch_size: the oldest
\* batch_size of the events held.
GrpDrained(held) == {m \in held : Cardinality({n \in held : n <= m}) <= BatchSize}

\* "for msg in messages" when the batch stays below batch_size: every event of
\* the read is added and nothing is flushed.
GrpAdd(c) ==
  /\ c \in alive /\ grpPc[c] = GrpLoop /\ grpMap[c] # {}
  /\ Cardinality(grpHeld[c] \cup grpMap[c]) < BatchSize
  /\ grpHeld' = [grpHeld EXCEPT ![c] = @ \cup grpMap[c]]
  /\ grpMap' = [grpMap EXCEPT ![c] = {}]
  /\ UNCHANGED <<grpStream, grpLast, grpOwner, grpPel, grpIdle, grpWaiting, grpAcked,
                 grpRows, grpPc, alive>>
  /\ UNCHANGED notGrpVars

\* "for msg in messages" when an add_event fills the batch, up to the return of
\* _process_batch: get_batch drains the batch, batch_messages is rebuilt from
\* message_map, which holds the messages of this read only, and these are
\* written.  The drained events of earlier reads are in no message and are
\* dropped.  The rest of the read is added once the flush is over.
GrpFlush(c) ==
  /\ c \in alive /\ grpPc[c] = GrpLoop /\ grpMap[c] # {}
  /\ Cardinality(grpHeld[c] \cup grpMap[c]) >= BatchSize
  /\ \E drained \in {GrpDrained(grpHeld[c] \cup grpMap[c])} :
     \E written \in {drained \cap grpMap[c]} :
        /\ grpRows' = grpRows \o SetToSeq(written)
        /\ grpHeld' = [grpHeld EXCEPT ![c] = (@ \cup grpMap[c]) \ drained]
        /\ grpPc' = [grpPc EXCEPT ![c] = [at |-> "ack", ids |-> SetToSeq(written)]]
  /\ grpMap' = [grpMap EXCEPT ![c] = {}]
  /\ UNCHANGED <<grpStream, grpLast, grpOwner, grpPel, grpIdle, grpWaiting, grpAcked,
                 alive>>
  /\ UNCHANGED notGrpVars

\* _ack_messages(processed_ids), after the size-triggered flush and after the
\* write of the claimed messages: XACK of the ids _process_batch returned.
GrpAck(c) ==
  /\ c \in alive /\ grpPc[c].at = "ack"
  /\ grpAcked' = grpAcked \cup Range(grpPc[c].ids)
  /\ grpPel' = grpPel \ Range(grpPc[c].ids)
  /\ grpIdle' = grpIdle \ Range(grpPc[c].ids)
  /\ grpWaiting' = Without(grpWaiting, Range(grpPc[c].ids))
  /\ grpPc' = [grpPc EXCEPT ![c] = GrpLoop]
  /\ UNCHANGED <<grpStream, grpLast, grpOwner, grpRows, grpHeld, grpMap, alive>>
  /\ UNCHANGED notGrpVars

\* A timeout-triggered flush of what the consumer holds: write_batch and no
\* acknowledgement.
GrpTimeoutFlush(c) ==
  /\ c \in alive /\ grpPc[c] = GrpLoop /\ grpMap[c] = {} /\ grpHeld[c] # {}
  /\ grpRows' = grpRows \o SetToSeq(grpHeld[c])
  /\ grpHeld' = [grpHeld EXCEPT ![c] = {}]
  /\ UNCHANGED <<grpStream, grpLast, grpOwner, grpPel, grpIdle, grpWaiting, grpAcked,
                 grpMap, grpPc, alive>>
  /\ UNCHANGED notGrpVars

\* The process of a consumer stops for good, wherever it is; another one keeps
\* running.
GrpCrash(c) ==
  /\ c \in alive /\ alive # {c}
  /\ alive' = alive \ {c}
  /\ grpHeld' = [grpHeld EXCEPT ![c] = {}]
  /\ grpMap' = [grpMap EXCEPT ![c] = {}]
  /\ grpPc' = [grpPc EXCEPT ![c] = GrpLoop]
  /\ UNCHANGED <<grpStream, grpLast, grpOwner, grpPel, grpIdle, grpWaiting, grpAcked,
                 grpRows>>
  /\ UNCHANGED notGrpVars

\* The broker's clock reaches min_idle_time after the oldest delivery among the
\* entries not yet idle.
GrpIdleExpire ==
  /\ grpWaiting # <<>>
  /\ grpIdle' = grpIdle \cup Head(grpWaiting)
  /\ grpWaiting' = Tail(grpWaiting)
  /\ UNCHANGED <<grpStream, grpLast, grpOwner, grpPel, grpAcked, grpRows, grpHeld,
                 grpMap, grpPc, alive>>
  /\ UNCHANGED notGrpVars

\* _process_pending_messages of a running consumer up to the return of XCLAIM:
\* it lists its own pending entries and claims those idle for min_idle_time.
\* XCLAIM makes the consumer their owner and sets their delivery time to now.
GrpProcessPending(c) ==
  /\ c \in alive /\ grpPc[c] = GrpLoop /\ grpMap[c] = {}
  /\ \E claimed \in {Claimed(PendingOf(c), grpIdle)} :
        /\ claimed # <<>>
        /\ grpOwner' = [m \in 1..MaxMsgs |->
                          IF m \in Range(claimed) THEN c ELSE grpOwner[m]]
        /\ grpIdle' = grpIdle \ Range(claimed)
        /\ grpWaiting' = Append(grpWaiting, Range(claimed))
        /\ grpPc' = [grpPc EXCEPT ![c] = [at |-> "claimed", ids |-> claimed]]
  /\ UNCHANGED <<grpStream, grpLast, grpPel, grpAcked, grpRows, grpHeld, grpMap, alive>>
  /\ UNCHANGED notGrpVars

\* _process_batch(messages) of _process_pending_messages: the claimed messages
\* are written.
GrpWriteClaimed(c) ==
  /\ c \in alive /\ grpPc[c].at = "claimed"
  /\ grpRows' = grpRows \o grpPc[c].ids
  /\ grpPc' = [grpPc EXCEPT ![c].at = "ack"]
  /\ UNCHANGED <<grpStream, grpLast, grpOwner, grpPel, grpIdle, grpWaiting, grpAcked,
                 grpHeld, grpMap, alive>>
  /\ UNCHANGED notGrpVars

GrpStep(c) ==
  \/ GrpRead(c)
  \/ GrpAdd(c)
  \/ GrpFlush(c)
  \/ GrpAck(c)
  \/ GrpTimeoutFlush(c)
  \/ GrpProcessPending(c)
  \/ GrpWriteClaimed(c)

GroupNext ==
  \/ GrpEnqueue
  \/ GrpIdleExpire
  \/ \E c \in Consumers : GrpRead(c)
  \/ \E c \in Consumers : GrpAdd(c)
  \/ \E c \in Consumers : GrpFlush(c)
  \/ \E c \in Consumers : GrpAck(c)
  \/ \E c \in Consumers : GrpTimeoutFlush(c)
  \/ \E c \in Consumers : GrpCrash(c)
  \/ \E c \in Consumers : GrpProcessPending(c)
  \/ \E c \in Consumers : GrpWriteClaimed(c)

(***************************************************************************)
(* add_latency called by several workers at once.  The calls share the    *)
(* sorted set; each call is the sequence of commands it sends: the         *)
(* timestamp is taken, ZADD, ZCARD, and ZPOPMIN when the count it read is  *)
(* above the window size.  Commands of different calls interleave.         *)
(***************************************************************************)
Callers == 1..MaxWorkers

RECURSIVE InsertByScore(_, _)
\* An entry put at its place in a sorted set kept in ascending score order.
InsertByScore(z, e) ==
  IF z = <<>> THEN <<e>>
  ELSE IF e.score < Head(z).score THEN <<e>> \o z
  ELSE <<Head(z)>> \o InsertByScore(Tail(z), e)

\* ZADD key {member: score}: a member already in the set only has its score
\* replaced.
ZAddScore(z, member, score) ==
  InsertByScore(SelectSeq(z, LAMBDA x : x.member # member),
                [member |-> member, score |-> score])

CwInit ==
  /\ cwWindow = <<>>
  /\ cwPc = [c \in Callers |-> "idle"]
  /\ cwArg = [c \in Callers |-> 0]
  /\ cwScore = [c \in Callers |-> 0]
  /\ cwCount = [c \in Callers |-> 0]
  /\ cwClock = 1
  /\ cwCalls = <<>>

\* add_latency(duration_ms, tool_name) is entered: timestamp = time.time()
CwStart(c, duration_ms) ==
  /\ cwPc[c] = "idle"
  /\ Len(cwCalls) < MaxOps
  /\ cwArg' = [cwArg EXCEPT ![c] = duration_ms]
  /\ cwScore' = [cwScore EXCEPT ![c] = cwClock]
  /\ cwClock' = cwClock + 1
  /\ cwCalls' = Append(cwCalls, duration_ms)
  /\ cwPc' = [cwPc EXCEPT ![c] = "zadd"]
  /\ UNCHANGED <<cwWindow, cwCount>>
  /\ UNCHANGED notCwVars

\* self.redis.zadd(self.latency_window_key, {str(duration_ms): score})
CwZAdd(c) ==
  /\ cwPc[c] = "zadd"
  /\ cwWindow' = ZAddScore(cwWindow, StrOf(cwArg[c]), cwScore[c])
  /\ cwPc' = [cwPc EXCEPT ![c] = "zcard"]
  /\ UNCHANGED <<cwArg, cwScore, cwCount, cwClock, cwCalls>>
  /\ UNCHANGED notCwVars

\* count = self.redis.zcard(self.latency_window_key)
CwZCard(c) ==
  /\ cwPc[c] = "zcard"
  /\ cwCount' = [cwCount EXCEPT ![c] = Len(cwWindow)]
  /\ cwPc' = [cwPc EXCEPT ![c] = "trim"]
  /\ UNCHANGED <<cwWindow, cwArg, cwScore, cwClock, cwCalls>>
  /\ UNCHANGED notCwVars

\* if count > self.latency_window_size: zpopmin(key, count - size); the call
\* returns.
CwTrim(c) ==
  /\ cwPc[c] = "trim"
  /\ cwWindow' = IF cwCount[c] > WindowSize
                   THEN ZPopMin(cwWindow, cwCount[c] - WindowSize)
                   ELSE cwWindow
  /\ cwPc' = [cwPc EXCEPT ![c] = "idle"]
  /\ UNCHANGED <<cwArg, cwScore, cwCount, cwClock, cwCalls>>
  /\ UNCHANGED notCwVars

ConcurrentWindowNext ==
  \/ \E c \in Callers, d \in Durations : CwStart(c, d)
  \/ \E c \in Callers : CwZAdd(c)
  \/ \E c \in Callers : CwZCard(c)
  \/ \E c \in Callers : CwTrim(c)

(***************************************************************************)
(* The two loops and the errors of the broker reads.  FastPathConsumer.run *)
(* and WorkerBase._run share no state: a behaviour follows one of them.    *)
(***************************************************************************)
notFpLoopVars == <<spVars, msVars, calcVars, poolVars, bmVars, dlqVars, mwVars, grpVars, cwVars, smVars>>
notSpLoopVars == <<fpVars, msVars, calcVars, poolVars, bmVars, dlqVars, mwVars, grpVars, cwVars, smVars>>

LoopInit ==
  /\ readErrors = 0
  /\ errors = [w \in Workers |-> 0]

\* _read_messages when XREADGROUP raises: the error is logged and [] is
\* returned, the iteration goes on with no message.
ReadMessagesFails ==
  /\ pc = "read" /\ readErrors < MaxErrors
  /\ readErrors' = readErrors + 1
  /\ messages' = <<>> /\ message_map' = <<>> /\ idx' = 1
  /\ flush' = NoFlush
  /\ pc' = "add"
  /\ UNCHANGED <<brokerVars, storeVars, running, batchVars, toAck, crashes,
                 writtenUnacked, errors>>
  /\ UNCHANGED notFpLoopVars

RECURSIVE SumErrors(_)
SumErrors(ws) ==
  IF ws = {} THEN 0
  ELSE LET w == CHOOSE x \in ws : TRUE IN errors[w] + SumErrors(ws \ {w})

\* Read errors the workers have logged so far.
ErrorsLogged == SumErrors(Workers)

\* _run when XREADGROUP raises: "except Exception" appends the error to
\* stats['errors'], sleeps one second and the while loop goes on.
WReadFails(w) ==
  /\ wpc[w] = "read" /\ ErrorsLogged < MaxErrors
  /\ errors' = [errors EXCEPT ![w] = @ + 1]
  /\ UNCHANGED <<spVars, readErrors>>
  /\ UNCHANGED notSpLoopVars

\* The workers whose loops are followed: one with a priority filter and one
\* without.
LoopWorkers == {"w1", "w2"}

\* The workers have not started.
WorkersIdle == SpInit /\ errors = [w \in Workers |-> 0]

\* The consumer has not started.
ConsumerIdle == FpInit /\ readErrors = 0

\* The consumer's loop with its environment (the producers have written before
\* run() is entered, the process is neither killed nor stopped, the broker and
\* the storage may fail), or the workers' loops (no other client claims their
\* entries, so a failed message stays below the dead-letter threshold).
LoopsNext ==
  \/ WorkersIdle /\ pc = "created" /\ Enqueue
  \/ WorkersIdle /\ TimerExpire
  \/ WorkersIdle /\ IdleExpire
  \/ WorkersIdle /\ Run
  \/ WorkersIdle /\ \E out \in FlushOutcomes : ProcessPending(out)
  \/ WorkersIdle /\ AckPending
  \/ WorkersIdle /\ ReadMessages
  \/ WorkersIdle /\ ReadMessagesFails
  \/ WorkersIdle /\ \E out \in FlushOutcomes : AddEvent(out)
  \/ WorkersIdle /\ AckBatch
  \/ WorkersIdle /\ \E out \in FlushOutcomes : TimeoutFlush(out)
  \/ ConsumerIdle /\ CdcPublish
  \/ ConsumerIdle /\ \E w \in LoopWorkers : WRead(w)
  \/ ConsumerIdle /\ \E w \in LoopWorkers : WProcess(w)
  \/ ConsumerIdle /\ \E w \in LoopWorkers : WSkipAck(w)
  \/ ConsumerIdle /\ \E w \in LoopWorkers : WSkipReturn(w)
  \/ ConsumerIdle /\ \E w \in LoopWorkers : WAck(w)
  \/ ConsumerIdle /\ \E w \in LoopWorkers : WCount(w)
  \/ ConsumerIdle /\ \E w \in LoopWorkers : WFinish(w)
  \/ ConsumerIdle /\ \E w \in LoopWorkers : WReadFails(w)

(***************************************************************************)
(* SessionMonitor (processing/cursor/session_monitor.py): the sessions it  *)
(* derives from the entries of "telemetry:events".                         *)
(***************************************************************************)
\* A field the entry does not have; _decode_field returns "" for it.
NoText == [valid |-> TRUE, text |-> "", obj |-> {}]
\* A text json.loads raises on.
BadJson == [valid |-> FALSE, text |-> "{", obj |-> {}]
\* The text of a JSON object, with the dict json.loads returns for it.
JsonText(obj) == [valid |-> TRUE, text |-> "object", obj |-> obj]

PayloadTexts ==
  {NoText, BadJson,
   JsonText({<<"session_id", "s1">>}),
   JsonText({<<"workspace_hash", "W1">>, <<"session_id", "s1">>}),
   JsonText({<<"workspace_hash", "W2">>, <<"session_id", "">>})}

MetadataTexts ==
  {NoText,
   JsonText({<<"workspace_hash", "W1">>, <<"session_id", "s2">>}),
   JsonText({<<"workspace_hash", "">>, <<"session_id", "s2">>})}

\* The entries producers write to the stream: session entries with every
\* payload that parses and every metadata, session entries whose payload does
\* not parse (the metadata is not looked at then), and an entry of another type
\* that carries a workspace_hash and a session_id.
SessionEntries ==
  [event_type : {"session_start", "session_end"}, payload : PayloadTexts \ {BadJson},
   metadata : MetadataTexts]
    \cup [event_type : {"session_start", "session_end"}, payload : {BadJson},
          metadata : {NoText}]
    \cup {[event_type |-> "tool_use",
           payload |-> JsonText({<<"workspace_hash", "W1">>, <<"session_id", "s1">>}),
           metadata |-> NoText]}

\* a or b
PyOr(a, b) == IF a \notin {PyNone, ""} THEN a ELSE b

\* payload/metadata = json.loads(text) if text else {}
LoadsOrEmpty(t) == IF t.text = "" THEN {} ELSE t.obj

\* What _process_redis_message takes from an entry: whether a json.loads
\* raised, and the workspace_hash and session_id it resolves.
SessionFields(fields) ==
  LET payload  == LoadsOrEmpty(fields.payload)
      metadata == LoadsOrEmpty(fields.metadata)
  IN [raised |-> ~fields.payload.valid \/ ~fields.metadata.valid,
      workspace_hash |-> PyOr(Get(metadata, "workspace_hash", PyNone),
                              Get(payload, "workspace_hash", PyNone)),
      session_id |-> PyOr(Get(payload, "session_id", PyNone),
                          Get(metadata, "session_id", PyNone))]

\* A session_end that ends a session only when it names that session.
ProcessRedisMessage_EndOfSameSession(active, fields) ==
  LET f == SessionFields(fields)
  IN IF fields.event_type \notin {"session_start", "session_end"} THEN active
     ELSE IF f.raised THEN active
     ELSE IF f.workspace_hash \in {PyNone, ""} \/ f.session_id \in {PyNone, ""}
       THEN active
     ELSE IF fields.event_type = "session_start"
       THEN {s \in active : s[1] # f.workspace_hash}
              \cup {<<f.workspace_hash, f.session_id>>}
     ELSE {s \in active : s # <<f.workspace_hash, f.session_id>>}

\* _process_redis_message: active_sessions after the entry, as the set of
\* (workspace_hash, session_id) items of the dict.
ProcessRedisMessage(active, fields) ==
  LET f == SessionFields(fields)
  IN IF fields.event_type \notin {"session_start", "session_end"} THEN active
     ELSE IF f.raised THEN active
     ELSE IF f.workspace_hash \in {PyNone, ""} \/ f.session_id \in {PyNone, ""}
       THEN active
     ELSE IF fields.event_type = "session_start"
       THEN {s \in active : s[1] # f.workspace_hash}
              \cup {<<f.workspace_hash, f.session_id>>}
     ELSE {s \in active : s[1] # f.workspace_hash}

RECURSIVE ProcessAll(_, _, _, _)
\* "for msg_id, fields in msgs": the entries from..to of the stream, in order.
ProcessAll(active, entries, from, to) ==
  IF from > to THEN active
  ELSE ProcessAll(ProcessRedisMessage(active, entries[from]), entries, from + 1, to)

SmInit ==
  /\ smStream = <<>>
  /\ active_sessions = {}
  /\ last_redis_id = 0
  /\ smStarts = 0
  /\ smProcessed = <<>>

\* The extension appends an entry to "telemetry:events".
SmAppend ==
  /\ Len(smStream) < MaxEntries
  /\ \E e \in SessionEntries : smStream' = Append(smStream, e)
  /\ UNCHANGED <<active_sessions, last_redis_id, smStarts, smProcessed>>
  /\ UNCHANGED notSmVars

\* start(), which tests nothing before it acts: _catch_up_historical_events
\* reads the stream from "0-0", whatever last_redis_id is, and processes every
\* entry in order; an xread that raises or returns nothing is passed over and
\* nothing is processed.  Then the listener task is created.
SmStart(up) ==
  /\ smStarts < MaxStarts
  /\ smStarts' = smStarts + 1
  /\ IF up /\ Len(smStream) > 0
       THEN /\ active_sessions' = ProcessAll(active_sessions, smStream, 1, Len(smStream))
            /\ last_redis_id' = Len(smStream)
            /\ smProcessed' = smProcessed \o [k \in 1..Len(smStream) |-> k]
       ELSE UNCHANGED <<active_sessions, last_redis_id, smProcessed>>
  /\ UNCHANGED smStream
  /\ UNCHANGED notSmVars

\* One iteration of _listen_redis_events that reads entries: xread after
\* last_redis_id, every entry processed in order.  The listeners of several
\* start() calls share last_redis_id, and an iteration does not suspend between
\* its read and the last entry it processes.
SmListen ==
  /\ smStarts > 0 /\ last_redis_id < Len(smStream)
  /\ active_sessions' = ProcessAll(active_sessions, smStream, last_redis_id + 1, Len(smStream))
  /\ smProcessed' = smProcessed \o [k \in 1..(Len(smStream) - last_redis_id) |-> last_redis_id + k]
  /\ last_redis_id' = Len(smStream)
  /\ UNCHANGED <<smStream, smStarts>>
  /\ UNCHANGED notSmVars

SessionMonitorNext ==
  \/ SmAppend
  \/ \E up \in BOOLEAN : SmStart(up)
  \/ SmListen

(***************************************************************************)
(* Specifications.                                                         *)
(***************************************************************************)
Init ==
  /\ FpInit /\ SpInit /\ MsInit /\ CalcInit /\ PoolInit /\ BmInit /\ DlqInit
  /\ MwInit /\ GrpInit /\ CwInit /\ LoopInit /\ SmInit

\* The Fast-Path Consumer with its environment.
Spec == Init /\ [][Next]_vars

\* The running consumer and a storage that may fail.
WritingSpec == Init /\ [][WritingNext]_vars

\* The event loop keeps scheduling the running consumer, and time passes.
RunningSpec ==
  Init /\ [][RunningNext]_vars /\ WF_vars(RunningStep) /\ WF_vars(TimerExpire)

\* The consumer keeps running for longer than min_idle_time: pending entries
\* it does not hold become claimable.
LongRunningSpec == RunningSpec /\ WF_vars(IdleExpire)

\* The workers of one pool on the CDC stream.
SlowSpec == Init /\ [][SlowNext]_vars

\* The workers of one pool, any of which stop() may cancel.
CancelSlowSpec == Init /\ [][CancelSlowNext]_vars

\* The event loop keeps scheduling every running worker.
FairSlowSpec == SlowSpec /\ \A w \in Workers : WF_vars(WorkerStep(w))

\* The shared metrics state under the calls of its clients.
SharedStateSpec == Init /\ [][SharedStateNext]_vars

\* The calculators of the metrics workers, each fed a share of the events.
CalculatorSpec == Init /\ [][CalculatorNext]_vars

\* A worker pool under start and stop calls.
PoolSpec == Init /\ [][PoolNext]_vars

\* A batch manager called from two threads.
BatchManagerSpec == Init /\ [][BatchManagerNext]_vars

\* The dead-letter stream under the handlers of both paths.
DlqSpec == Init /\ [][DlqNext]_vars

\* One metrics worker handling pointers while rows are committed.
MetricsWorkerSpec == Init /\ [][MetricsWorkerNext]_vars

\* Two consumers of one group; the event loop keeps scheduling the running
\* ones and time passes.
GroupSpec ==
  /\ Init /\ [][GroupNext]_vars
  /\ \A c \in Consumers : WF_vars(GrpStep(c))
  /\ WF_vars(GrpIdleExpire)

\* add_latency calls of several workers, command by command.
ConcurrentWindowSpec == Init /\ [][ConcurrentWindowNext]_vars

\* The consumer's loop or the workers' loops, with broker reads that may raise.
LoopsSpec == Init /\ [][LoopsNext]_vars

\* The consumer until stop(): the process is not killed and the event loop keeps
\* scheduling run().
StoppingNext ==
  \/ Enqueue
  \/ TimerExpire
  \/ IdleExpire
  \/ Run
  \/ \E out \in FlushOutcomes : ProcessPending(out)
  \/ AckPending
  \/ ReadMessages
  \/ \E out \in FlushOutcomes : AddEvent(out)
  \/ AckBatch
  \/ \E out \in FlushOutcomes : TimeoutFlush(out)
  \/ Stop
  \/ StopExit

\* One step of run(), the return from its loop included.
ConsumerStep ==
  \/ Run
  \/ \E out \in FlushOutcomes : ProcessPending(out)
  \/ AckPending
  \/ ReadMessages
  \/ \E out \in FlushOutcomes : AddEvent(out)
  \/ AckBatch
  \/ \E out \in FlushOutcomes : TimeoutFlush(out)
  \/ StopExit

StoppingSpec == Init /\ [][StoppingNext]_vars /\ WF_vars(ConsumerStep)

\* The session monitor and the extension that writes the entries.
SessionMonitorSpec == Init /\ [][SessionMonitorNext]_vars

(***************************************************************************)
(* Properties of the Fast-Path Consumer.                                   *)
(***************************************************************************)
\* The event _read_messages builds for message id m.
EventOf(m) == ParseMessage(m, stream[m]).event

WellFormed(m) == stream[m].utf8

RowsFor(m) == {i \in DOMAIN rowOrigin : rowOrigin[i] = m}

\* C1 (ack-after-write): every acknowledged message has its event in durable
\* storage: no message is acknowledged whose event has not been written.
C1_AckedEventWritten ==
  \A m \in acked : WellFormed(m) => \E i \in DOMAIN rows : rows[i] = EventOf(m)

\* C2: a step in which write_batch raises acknowledges nothing and returns no id
\* to acknowledge, and from then on until the consumer moves on every message of
\* the batch is still pending in the group.
C2_NoAckWhenWriteRaises ==
  [][ /\ flush'.raised =>
           /\ acked' = acked
           /\ toAck' = <<>>
           /\ Range(flush'.origin) \subseteq pel'
      /\ flush.raised =>
           /\ acked' = acked
           /\ Range(flush.origin) \subseteq pel' ]_vars

\* The rows written for message m that carry the event_id of its event.
RowsWithEventId(m) ==
  {i \in RowsFor(m) : Get(rows[i], "event_id", "") = Get(EventOf(m), "event_id", "")}

\* C3: a message whose write committed before a crash that prevented its XACK has,
\* once it is redelivered and acknowledged, exactly one row for its event_id in
\* durable storage: the redelivery adds no second row.
C3_OneRowAfterRedelivery ==
  \A m \in writtenUnacked : m \in acked => Cardinality(RowsWithEventId(m)) = 1

\* C4: every CDC pointer references a committed row holding its event, and a flush
\* whose write raised publishes no pointer.
C4_PointersCommitted ==
  /\ \A i \in DOMAIN cdc :
        /\ cdc[i].sequence \in DOMAIN rows
        /\ rows[cdc[i].sequence] = cdc[i].event
  /\ flush.raised => flush.published = <<>>

\* A timeout-triggered flush has published pointers, after a size-triggered one.
C4_Witness ==
  /\ flush.kind = "timeout" /\ Len(flush.published) > 0
  /\ Len(cdc) > Len(flush.published)

\* C5: a size-triggered flush makes one write call holding every drained event in
\* the order added, and publishes one pointer per written event.
C5_SizeFlushWritesBatch ==
  flush.kind = "size" =>
     /\ flush.written = flush.drained
     /\ ~flush.raised => Len(flush.published) = Len(flush.drained)

WrittenLast(b) ==
  /\ Len(rows) >= Len(b)
  /\ SubSeq(rows, Len(rows) - Len(b) + 1, Len(rows)) = b

\* C6 (timeout flush): a non-empty batch is eventually drained, either because it
\* reached the size threshold or by a timeout-triggered flush; and a
\* timeout-triggered flush drains the whole batch and writes all its events, in
\* order, to durable storage.
C6_TimeoutFlushWrites ==
  /\ (batch # <<>>) ~>
        \/ flush.kind = "size"
        \/ flush.kind = "timeout" /\ flush.drained # <<>> /\ WrittenLast(flush.drained)
  /\ [][(pc = "add" /\ pc' = "pending" /\ flush'.kind = "timeout") =>
          (flush'.drained = batch /\ batch' = <<>>)]_vars

\* A timeout-triggered flush wrote a batch that never reached the size threshold.
C6_Witness ==
  /\ flush.kind = "timeout" /\ ~flush.raised
  /\ Len(flush.drained) \in 1..(BatchSize - 1)
  /\ WrittenLast(flush.drained)

\* C7: a message that failed to parse is in the dead-letter stream as soon as the
\* loop of the iteration that read it has passed it.
C7_ParseFailureDeadLettered ==
  \A k \in DOMAIN messages :
     (k < idx /\ messages[k].isNone) =>
        \E d \in DOMAIN fdlq : fdlq[d].message_id = messages[k].id

(***************************************************************************)
(* Properties of the Slow-Path Workers.                                    *)
(***************************************************************************)
\* The priority class a CDC entry carries, DefaultPriority when it carries none.
ClassOf(entry) ==
  IF HasKey(entry.fields, "priority")
    THEN Get(entry.fields, "priority", BytesVal(DefaultPriority))[2]
    ELSE DefaultPriority

\* Worker w is configured for the priority class of the entry.
Configured(w, entry) == priorities[w].none \/ IntVal(ClassOf(entry)) \in priorities[w].set

\* C8 (dead-letter threshold): a CDC message for which process_event raises is
\* eventually in the dead-letter stream with delivery_count = max_retries and the
\* raised error, and acknowledged on the primary stream.
C8_PoisonDeadLettered ==
  \A i \in 1..MaxCdc :
     (i \in invoked /\ cstream[i].poison) ~>
        /\ i \in wacked
        /\ \E k \in DOMAIN wdlq :
              /\ wdlq[k].original_message_id = i
              /\ wdlq[k].delivery_count = MaxRetries
              /\ wdlq[k].error = "process_event raised"

\* C9: a CDC pointer of a priority class its worker is configured for, once the
\* worker has acknowledged it, had process_event invoked for it, and every such
\* pointer whose processing succeeded is counted in stats['processed'] once the
\* worker is through with it.
C9_MatchingProcessed ==
  /\ \A i \in DOMAIN cstream :
        (deliveredTo[i] \in Workers /\ Configured(deliveredTo[i], cstream[i])
           /\ i \in wacked) => i \in invoked
  /\ \A w \in Workers :
        stats[w].processed =
          Cardinality({i \in wacked : deliveredTo[i] = w /\ Configured(w, cstream[i])
                                        /\ ~cstream[i].poison /\ i # cur[w]})

\* C10: a worker that handles a pointer of a priority class it is not
\* configured for hands the XACK to a thread at once, the thread acknowledges
\* the pointer and the worker returns to its read; none of these steps changes
\* the set of process_event invocations, the recorded metrics, the dead-letter
\* stream or the processed/failed counters.
C10_FilteredAckedUntouched ==
  [][\A w \in Workers :
       (wpc[w] \in {"process", "skip_ack", "skipped"} /\ wpc'[w] # wpc[w]
          /\ ~Configured(w, cstream[cur[w]]))
          => /\ wpc[w] = "process" => wpc'[w] = "skip_ack"
             /\ wpc[w] = "skip_ack" =>
                  (wpc'[w] = "skipped" /\ cur[w] \in wacked' /\ cur[w] \notin wpending')
             /\ wpc[w] = "skipped" => (wpc'[w] = "read" /\ cur[w] \in wacked)
             /\ invoked' = invoked /\ recorded' = recorded
             /\ wdlq' = wdlq /\ stats' = stats]_vars

\* The MetricsWorker has acknowledged a pointer of class 4 without processing it.
C10_Witness ==
  \E i \in DOMAIN cstream :
     /\ deliveredTo[i] = "w1" /\ ClassOf(cstream[i]) = 4
     /\ ~Configured("w1", cstream[i])
     /\ i \in wacked /\ i \notin invoked /\ i \notin recorded
     /\ stats["w1"] = NoStats /\ wdlq = <<>>

RECURSIVE SumProcessed(_)
\* The sum of stats['processed'] over a set of workers.
SumProcessed(ws) ==
  IF ws = {} THEN 0
  ELSE LET w == CHOOSE x \in ws : TRUE
       IN stats[w].processed + SumProcessed(ws \ {w})

\* Every published entry has been consumed and no worker holds one.
Drained ==
  /\ cstream # <<>>
  /\ \A i \in DOMAIN cstream : i \in wacked
  /\ \A w \in Workers : wpc[w] = "read"

\* Worker w has no priority filter (the workers of test_async_redis_workers).
Unfiltered(w) == w \in Workers /\ priorities[w].none

\* C11 (competing consumers): once the stream is drained by workers without a
\* filter and process_event never failed, process_event was invoked for every
\* message and the workers' stats['processed'] add up to the number of messages.
C11_EachProcessedOnce ==
  (Drained /\ \A i \in DOMAIN cstream : Unfiltered(deliveredTo[i]) /\ ~cstream[i].poison)
     => /\ SumProcessed(Workers) = Len(cstream)
        /\ \A i \in DOMAIN cstream : i \in invoked /\ i \in recorded

\* Two messages were drained by two different workers without a filter.
C11_Witness ==
  /\ Drained /\ Len(cstream) >= 2
  /\ \A i \in DOMAIN cstream : Unfiltered(deliveredTo[i]) /\ ~cstream[i].poison
  /\ \E i, j \in DOMAIN cstream : deliveredTo[i] # deliveredTo[j]
  /\ SumProcessed(Workers) = Len(cstream)

(***************************************************************************)
(* Properties of the shared metrics state.                                 *)
(***************************************************************************)
\* The last min(n, WindowSize) elements of a sequence of n calls.
MostRecent(calls) ==
  SubSeq(calls, Len(calls) - Min(Len(calls), WindowSize) + 1, Len(calls))

\* The samples of the latency window, oldest first.
LatencySamples == [i \in 1..Len(latency_window) |-> NumOf(latency_window[i])]

\* C13 (latency window): after n add_latency calls the window holds exactly the
\* min(n, window size) most recently added samples, one entry per call, also
\* when calls recorded equal durations.
C13_LatencyWindowHoldsRecent == LatencySamples = MostRecent(latencyCalls)

\* The number of samples of the window below v.
Below(v) == Cardinality({i \in DOMAIN LatencySamples : LatencySamples[i] < v})

\* C14 (latency percentiles): for a non-empty window of count samples each
\* percentile is the element of the sorted window at index
\* min(floor(count * percentile), count - 1), hence p50 <= p95 <= p99; for an
\* empty window all percentiles are 0.
C14_PercentilesOrdered ==
  LET r == GetLatencyPercentiles(latency_window)
      count == Len(latency_window)
      At(v, pct) == /\ \E i \in DOMAIN LatencySamples : LatencySamples[i] = v
                    /\ Below(v) = Min((count * pct) \div 100, count - 1)
  IN IF count = 0
       THEN r.p50 = 0 /\ r.p95 = 0 /\ r.p99 = 0
       ELSE /\ At(r.p50, 50) /\ At(r.p95, 95) /\ At(r.p99, 99)
            /\ r.p50 <= r.p95 /\ r.p95 <= r.p99

\* A full window, after an eviction, whose median is below its 95th percentile.
C14_Witness ==
  /\ Len(latency_window) = WindowSize /\ Len(latencyCalls) > WindowSize
  /\ GetLatencyPercentiles(latency_window).p50 < GetLatencyPercentiles(latency_window).p95
  /\ GetLatencyPercentiles(latency_window).p95 = GetLatencyPercentiles(latency_window).p99

\* The decisions of the acceptance window, oldest first, as 1 and 0.
AcceptanceDecisions == [i \in 1..Len(acceptance_window) |-> NumOf(acceptance_window[i])]

\* C16 (acceptance rate): after n add_acceptance calls the window holds the
\* min(n, window size) most recent decisions, one entry per call, and
\* get_acceptance_rate is 100 times the fraction of accepted ones among them,
\* between 0 and 100.
C16_AcceptanceRateOfRecent ==
  LET recent == MostRecent(acceptanceCalls)
      ones == [i \in 1..Len(recent) |-> IF recent[i] THEN 1 ELSE 0]
      rate == GetAcceptanceRate(acceptance_window)
  IN /\ AcceptanceDecisions = ones
     /\ Len(recent) > 0 => rate.num * Len(recent) = 100 * Sum(ones) * rate.den
     /\ 0 <= rate.num /\ rate.num <= 100 * rate.den


(***************************************************************************)
(* MetricsCalculator.                                                      *)
(***************************************************************************)
\* Two lists of metrics with the same names and equal values.
SameMetrics(a, b) ==
  /\ Len(a) = Len(b)
  /\ \A i \in 1..Len(a) :
        /\ a[i].category = b[i].category
        /\ a[i].name = b[i].name
        /\ a[i].value.num * b[i].value.den = b[i].value.num * a[i].value.den

\* C12: however the events are distributed over the workers, the aggregate
\* state seen by the worker that processed the latest event, and the metrics
\* it derived, are those of a single worker that processed all the events.
C12_CrossWorkerConsistent ==
  calcLog # <<>> =>
    /\ calc[calcLog[Len(calcLog)].by] = SingleWorker(calcLog).st
    /\ SameMetrics(emitted, SingleWorker(calcLog).metrics)

\* The step hands an event of the given type to a calculator.
Processes(type) ==
  /\ Len(calcLog') = Len(calcLog) + 1
  /\ Get(calcLog'[Len(calcLog')].event, "event_type", "") = type

\* The payload of the event of the step.
StepPayload == Get(calcLog'[Len(calcLog')].event, "payload", {})

\* The calculator of the step.
StepBy == calcLog'[Len(calcLog')].by

\* C15: processing a file_edit event whose payload has no accepted field
\* leaves the acceptance window unchanged.
C15_MissingAcceptedIgnored ==
  [][(Processes("file_edit") /\ ~HasKey(StepPayload, "accepted"))
       => calc'[StepBy].acceptance_window = calc[StepBy].acceptance_window]_vars

\* C17: processing a tool_use event whose payload has no success field changes
\* neither the success counter nor the failure counter of any tool.
C17_MissingSuccessIgnored ==
  [][(Processes("tool_use") /\ ~HasKey(StepPayload, "success"))
       => \A t \in Tools :
            /\ HGetInt(calc'[StepBy].tool_success, t) = HGetInt(calc[StepBy].tool_success, t)
            /\ HGetInt(calc'[StepBy].tool_failures, t) = HGetInt(calc[StepBy].tool_failures, t)]_vars

\* Type of the i-th event of the log.
TypeAt(i) == Get(calcLog[i].event, "event_type", "")

\* One calculator got every event so far: a session_start, then tool_use and
\* user_prompt events, then a session_end.
WholeSession(c) ==
  /\ Len(calcLog) >= 2
  /\ \A i \in 1..Len(calcLog) : calcLog[i].by = c
  /\ TypeAt(1) = "session_start"
  /\ TypeAt(Len(calcLog)) = "session_end"
  /\ \A i \in 2..(Len(calcLog) - 1) : TypeAt(i) \in {"tool_use", "user_prompt"}

\* Number of events of a type in the log.
CountOf(type) == Cardinality({i \in 1..Len(calcLog) : TypeAt(i) = type})

\* C18: once the session_end of a session is processed, its start timestamp,
\* tool counter and prompt counter are all gone.
C18_SessionStateDeleted ==
  \A c \in Calculators : \A sid \in Sessions :
    WholeSession(c) =>
      /\ ~HasKey(calc[c].session_starts, sid)
      /\ ~HasKey(calc[c].session_tool_counts, sid)
      /\ ~HasKey(calc[c].session_prompt_counts, sid)

\* The list holds a metric of that name with that value.
HasMetric(ms, name, value) ==
  \E i \in 1..Len(ms) :
    /\ ms[i].name = name
    /\ ms[i].value.num * value.den = value.num * ms[i].value.den

\* C19: a session with k tool_use events that ends d seconds after its start
\* yields session_duration = d and tools_per_minute = k / d * 60.
C19_SessionMetrics ==
  \A c \in Calculators :
    (WholeSession(c) /\ HasKey(calcLog[Len(calcLog)].event, "timestamp")) =>
      /\ HasMetric(emitted, <<"session_duration">>, Ratio(SessionLength, 1))
      /\ HasMetric(emitted, <<"tools_per_minute">>,
                   Ratio(CountOf("tool_use") * 60, SessionLength))


(***************************************************************************)
(* WorkerPoolManager.                                                      *)
(***************************************************************************)
\* What a caller can observe of the pool.
PoolState == <<poolRunning, poolWorkers, worker_tasks, loopTasks>>

\* With the step a call of that name returns.
PoolCall(call) ==
  /\ Len(poolCalls') = Len(poolCalls) + 1
  /\ poolCalls'[Len(poolCalls')].call = call

\* The backpressure monitors among the tasks.
Monitors(handles, all) == {i \in 1..Len(handles) : all[handles[i]].kind = "monitor"}

\* C20: start() on a running pool and stop() on a stopped pool leave the pool
\* as it is, and after any sequence of start() and stop() calls a running pool
\* has the configured number of workers, one task for each of them and one
\* backpressure monitor.
C20_StartStopIdempotent ==
  [][/\ (PoolCall("start") /\ poolRunning) => PoolState' = PoolState
     /\ (PoolCall("stop") /\ ~poolRunning /\ stopAt' = stopAt) => PoolState' = PoolState
     /\ poolRunning' =>
          /\ Len(poolWorkers') = ConfiguredWorkers
          /\ Len(worker_tasks') = ConfiguredWorkers + 1
          /\ Cardinality(Monitors(worker_tasks', loopTasks')) = 1]_vars

\* C21: when stop() returns, every task start() created is cancelled or
\* finished, no worker is left running and the pool holds no workers and no
\* tasks.
C21_StopLeavesNothingRunning ==
  [][PoolCall("stop") =>
       /\ \A k \in 1..Len(loopTasks') : Done(loopTasks'[k])
       /\ \A n \in 1..Len(poolWorkers') : ~poolWorkers'[n].running
       /\ poolWorkers' = <<>>
       /\ worker_tasks' = <<>>]_vars


(***************************************************************************)
(* BatchManager.                                                           *)
(***************************************************************************)
\* C22: add_event returns true exactly when the batch, after the insert, has
\* reached batch_size.
C22_AddReportsFullBatch ==
  [][appended' = appended + 1 =>
       /\ bmResult'.op = "add_event"
       /\ bmResult'.value <=> (Len(bm_events') >= BatchSize)]_vars

\* add_event has returned false for a batch below batch_size, then true, and
\* true again for a batch beyond batch_size.
C22_Witness ==
  /\ bmResult = [op |-> "add_event", value |-> TRUE]
  /\ Len(bm_events) > BatchSize

\* What should_flush returns when called now.
FlushDue == ShouldFlushAt(bm_events, first_event_time, clock)

\* C23: should_flush is false on an empty batch, and true for a batch whose
\* first event was added more than batch_timeout ago; events of batches
\* already drained do not count.
C23_TimerOfCurrentBatch ==
  /\ bm_events = <<>> => ~FlushDue
  /\ (appendTimes # <<>> /\ clock - appendTimes[1] > BatchTimeout) => FlushDue
  /\ FlushDue => first_event_time >= drainTime

\* A batch was drained, a new one was started later and its timer ran out.
C23_Witness ==
  /\ returned # <<>> /\ returned[1] # <<>>
  /\ Len(appendTimes) >= 2
  /\ clock - appendTimes[1] > BatchTimeout
  /\ bmResult = [op |-> "should_flush", value |-> TRUE]

RECURSIVE Flatten(_)
\* The lists of a list, one after the other.
Flatten(lists) == IF lists = <<>> THEN <<>> ELSE Head(lists) \o Flatten(Tail(lists))

\* C24: the batches returned by get_batch, one after the other and followed
\* by the events still in the batch, are the events added, each once and in
\* the order of their insertion, less the events a clear() call dropped (all
\* of them when only add_event and get_batch are called); a get_batch leaves
\* the batch empty with its timer reset.
C24_EachEventReturnedOnce ==
  /\ Flatten(returned) \o bm_events = SetToSeq((1..appended) \ cleared)
  /\ cleared = {} => Flatten(returned) \o bm_events = [k \in 1..appended |-> k]
  /\ (bmResult.op = "get_batch" /\ lock = NoThread)
       => (bm_events = <<>> /\ first_event_time = NoTime)

\* Two get_batch calls returned events while a thread was adding more.
C24_Witness ==
  /\ cleared = {}
  /\ Len(returned) >= 2
  /\ returned[1] # <<>> /\ returned[2] # <<>>
  /\ \E t \in Threads : bmPc[t] = "add"


(***************************************************************************)
(* The dead-letter stream "telemetry:dlq", shared by both paths.           *)
(***************************************************************************)
DlqFields == {"error", "failed_at", "original_message_id", "delivery_count"}

\* C26: every entry of the dead-letter stream, written by a worker or by the
\* consumer, carries error, failed_at, original_message_id and delivery_count.
C26_DlqEntryFields == \A k \in DOMAIN dlq : DlqFields \subseteq DOMAIN dlq[k]


(***************************************************************************)
(* Order of writes and sequence numbers.                                   *)
(***************************************************************************)
RECURSIVE IsSubsequence(_, _)
\* The elements of sub occur in full, in the same order.
IsSubsequence(sub, full) ==
  IF sub = <<>> THEN TRUE
  ELSE IF full = <<>> THEN FALSE
  ELSE IF Head(sub) = Head(full) THEN IsSubsequence(Tail(sub), Tail(full))
  ELSE IsSubsequence(sub, Tail(full))

MwMessages == Range(handled) \cup (IF mwTask.step = "idle" THEN {} ELSE {mwTask})

\* The dead-letter entries written for a message.
MwDeadLetters(m) == {d \in DOMAIN mwDlq : mwDlq[d].original_message_id = m.id}

\* C29 (fetch-miss): for a pointer whose sequence had no row when process_event
\* looked for it, no metric is recorded, the message is not counted as failed,
\* nothing is written to the dead-letter stream for it, and once the XACK that
\* follows process_event was made the message is acknowledged.
C29_FetchMissIsNoOp ==
  \A m \in MwMessages :
     m.miss =>
        /\ m.recorded = 0 /\ ~m.failed
        /\ MwDeadLetters(m) = {}
        /\ m.step \in {"ack", "acked", "processed"}
        /\ m.step # "ack" => m.id \in mwAcked

\* A pointer to a stored row failed on the worker, which has no calculator, and
\* then a pointer to a sequence that has no row was processed and acknowledged.
C29_Witness ==
  /\ Len(handled) = 2 /\ Len(raw_traces) = 1
  /\ handled[1].step = "failed" /\ handled[1].fetched /\ ~handled[1].miss
  /\ handled[2].miss /\ handled[2].fetched /\ handled[2].step = "processed"
  /\ 2 \in mwAcked /\ mwStats = [processed |-> 1, failed |-> 1] /\ mwDlq = <<>>

\* C30: with the consumer running and the storage available, every message
\* whose event a flush wrote to storage, by size or by timeout, is eventually
\* acknowledged: none stays in the pending-entries list for ever.
C30_WrittenEventuallyAcked ==
  \A m \in 1..MaxMsgs : (m \in Range(rowOrigin)) ~> (m \in acked /\ m \notin pel)

\* C31 (retry before dead-letter): a message for which process_event failed
\* and whose delivery count is below max_retries is neither acknowledged nor
\* written to the dead-letter stream, and every entry of the dead-letter stream
\* is for a failed message the pending-entries list reported as delivered at
\* least max_retries times, with that count in the entry.
C31_RetryBeforeDeadLetter ==
  /\ \A m \in MwMessages :
        (m.failed /\ GetDeliveryCount(m.lookup) < MaxRetries)
           => (m.id \notin mwAcked /\ MwDeadLetters(m) = {})
  /\ \A d \in DOMAIN mwDlq :
        \E m \in MwMessages :
           /\ MwDeadLetters(m) = {d}
           /\ m.failed
           /\ ~m.lookup.raised /\ m.lookup.found /\ m.lookup.times >= MaxRetries
           /\ mwDlq[d].delivery_count = m.lookup.times

\* One failed message was left pending on its second delivery and another was
\* dead-lettered on its third.
C31_Witness ==
  /\ Len(handled) = 2
  /\ handled[1].step = "failed" /\ handled[1].lookup.times = 2
  /\ handled[2].step = "failed" /\ handled[2].lookup.times = MaxRetries
  /\ mwAcked = {2} /\ Len(mwDlq) = 1 /\ mwDlq[1].original_message_id = 2
  /\ mwStats.failed = 2

\* C32 (no silent drop): a message whose processing failed is acknowledged
\* only if the dead-letter stream holds an entry for it with its error and
\* delivery count.
C32_FailedAckedOnlyIfDeadLettered ==
  \A m \in MwMessages :
     (m.failed /\ m.id \in mwAcked)
        => \E d \in MwDeadLetters(m) :
              /\ mwDlq[d].delivery_count = GetDeliveryCount(m.lookup)
              /\ mwDlq[d].error = "process_event raised"

\* C33: a message is acknowledged, unless the priority filter skipped it or
\* it was dead-lettered, only once process_event has returned for it without
\* raising; a message counted in
\* stats['processed'] was acknowledged; and a worker cancelled while
\* process_event is in flight leaves the message it holds unacknowledged.
C33_AckAfterProcessEvent ==
  /\ \A i \in wacked :
        \/ ~PassesFilter(priorities[deliveredTo[i]], DecodeMessage(cstream[i].fields))
        \/ \E d \in DOMAIN wdlq : wdlq[d].original_message_id = i
        \/ i \in invoked /\ ~cstream[i].poison
  /\ \A w \in Workers :
        stats[w].processed <=
          Cardinality({i \in wacked : deliveredTo[i] = w /\ i \in invoked})
  /\ \A w \in Workers :
        (wpc[w] = "cancelled" /\ outcome[w] = "none")
           => (cur[w] \notin wacked /\ cur[w] \in wpending)

\* One worker without a filter was cancelled while process_event was in flight
\* and its message is still pending; another one processed and acknowledged
\* its message.
C33_Witness ==
  /\ wpc["w2"] = "cancelled" /\ outcome["w2"] = "none"
  /\ cur["w2"] \in wpending /\ cur["w2"] \notin wacked
  /\ stats["w3"].processed = 1
  /\ \E i \in wacked : deliveredTo[i] = "w3" /\ i \in invoked

\* C34: the event the reclaim path writes for a message is the event a first
\* delivery of the same message produces.
C34_ReclaimedSameEvent ==
  flush.kind = "pending" =>
     \A k \in DOMAIN flush.written :
        LET first == ParseMessage(flush.origin[k], stream[flush.origin[k]])
        IN ~first.isNone => flush.written[k] = first.event


\* C35 (redelivery after a crash): a message pending for a consumer whose
\* process has stopped for good is eventually claimed, written and
\* acknowledged by a running consumer of the group.
C35_OrphanTakenOver ==
  \A m \in 1..MaxMsgs :
     (m \in grpPel /\ grpOwner[m] \notin alive)
        ~> (m \in grpAcked /\ m \in Range(grpRows))

\* The samples of the shared latency window, lowest score first.
ConcurrentSamples == [i \in 1..Len(cwWindow) |-> NumOf(cwWindow[i].member)]

\* Every call so far carried a duration no other call carried.
DistinctDurations == \A i, j \in 1..Len(cwCalls) : cwCalls[i] = cwCalls[j] => i = j

\* C36: when every add_latency call issued by the concurrent workers has
\* returned, the latency window holds exactly min(n, window size) samples and
\* they are the most recent ones; whatever the interleaving of the calls'
\* commands.  Stated for calls with pairwise different durations, so that
\* equal members of the sorted set play no part.
C36_ConcurrentWindowHoldsRecent ==
  ((\A c \in Callers : cwPc[c] = "idle") /\ DistinctDurations)
     => ConcurrentSamples = MostRecent(cwCalls)

\* The positions of run() inside its while loop.
LoopPositions == {"pending", "pending_ack", "read", "add", "ack"}

\* This step of the consumer raised an exception inside the iteration: a
\* write_batch or publish of a flush, or the broker read.
IterationRaises ==
  \/ flush' # flush /\ flush'.raised
  \/ publishErrors' # publishErrors
  \/ readErrors' # readErrors

\* This step of worker w handles an exception raised inside the iteration:
\* it ends the handling of a process_event that raised, or the broker read
\* raised.
WorkerRaises(w) ==
  \/ outcome[w] = "raised" /\ outcome'[w] # "raised"
  \/ errors'[w] # errors[w]

\* C37: while running is true no exception raised inside an iteration of the
\* Fast-Path Consumer loop or of a Slow-Path Worker loop (broker read error,
\* write failure, publish failure, processing failure) ends the loop: after
\* the step that raised, the loop is at a position from which it goes on to a
\* further iteration, and running is unchanged.
C37_LoopSurvivesExceptions ==
  [][/\ (running /\ pc \in LoopPositions /\ IterationRaises)
          => (pc' \in LoopPositions /\ running')
     /\ \A w \in Workers : WorkerRaises(w) => wpc'[w] = "read"]_vars

\* A timeout flush whose write raised, and a broker read that raised; the
\* consumer is back at the top of its loop, still running.
C37_Witness ==
  /\ flush.kind = "timeout" /\ flush.raised
  /\ readErrors > 0
  /\ running /\ pc = "pending"

\* After stop() the loop starts no new iteration: from the top of the loop
\* with running false the consumer only leaves run().
NoNewReadAfterStop ==
  [][(~running /\ pc = "pending") => pc' \in {"pending", "stopped"}]_vars

\* After a stop() made while run() is in its loop the consumer reaches the
\* stopped state.
StopReached == (~running /\ pc \in LoopPositions /\ crashes = 0) ~> (pc = "stopped")

\* When the consumer has stopped every message whose event it wrote is
\* acknowledged and its batch holds no event.
StoppedClean ==
  [](pc = "stopped" => (Range(rowOrigin) \subseteq acked /\ batch = <<>>))

\* C38: cooperative stop of the Fast-Path Consumer: after stop() the consumer
\* starts no new read once the in-flight iteration has completed, it
\* eventually reaches the stopped state, and when it stops every batch it has
\* written has been acknowledged and no event accepted into its batch is left
\* unwritten in memory.
C38_CooperativeStop == NoNewReadAfterStop /\ StopReached /\ StoppedClean

\* The session entries processed so far that are complete: session_start or
\* session_end, both texts parsed, a workspace_hash and a session_id found.
CompleteFor(W) ==
  SelectSeq([k \in 1..Len(smProcessed) |-> smStream[smProcessed[k]]],
            LAMBDA e : /\ e.event_type \in {"session_start", "session_end"}
                       /\ e.payload.valid /\ e.metadata.valid
                       /\ SessionFields(e).workspace_hash = W
                       /\ SessionFields(e).session_id \notin {PyNone, ""})

Workspaces == {"W1", "W2"}

\* C39: SessionMonitor keeps at most one active session per workspace_hash,
\* and after the entries processed so far, in the order the monitor processed
\* them (stream order, and again from the first entry at each later start()), a
\* workspace W is in active_sessions exactly when the last complete session_start or
\* session_end entry for W was a session_start, with the session_id of that
\* entry; entries of other types and incomplete entries change nothing.
C39_ActiveIffLastWasStart ==
  /\ \A s, t \in active_sessions : s[1] = t[1] => s = t
  /\ \A s \in active_sessions : s[1] \in Workspaces
  /\ \A W \in Workspaces :
        LET c == CompleteFor(W)
        IN IF c # <<>> /\ c[Len(c)].event_type = "session_start"
             THEN <<W, SessionFields(c[Len(c)]).session_id>> \in active_sessions
             ELSE ~HasKey(active_sessions, W)

\* A session of W1 was started as s1 and then ended by a session_end that
\* names s2, and a second start() has processed both entries again; W1 is not
\* active.
C39_Witness ==
  /\ smProcessed = <<1, 2, 1, 2>>
  /\ smStream[1].event_type = "session_start"
  /\ SessionFields(smStream[1]).workspace_hash = "W1"
  /\ SessionFields(smStream[1]).session_id = "s1"
  /\ ~SessionFields(smStream[1]).raised
  /\ smStream[2].event_type = "session_end"
  /\ SessionFields(smStream[2]).workspace_hash = "W1"
  /\ SessionFields(smStream[2]).session_id = "s2"
  /\ ~SessionFields(smStream[2]).raised
  /\ ~HasKey(active_sessions, "W1")

====
